---- MODULE Spec2Model ----
(***************************************************************************)
(* A model of the product extraction core of aeiouboy/optus:               *)
(*   adws/adw_modules/product_schemas.py   (ProductData, PriceParser)      *)
(*   adws/adw_modules/product_extractor.py (ProductExtractor and the       *)
(*                                           retailer extractors)          *)
(*   adws/adw_modules/crawl4ai_wrapper.py  (Crawl4AIWrapper)               *)
(*   adws/adw_ecommerce_product_scraper.py (batch mode)                    *)
(*                                                                         *)
(* Text is a sequence of one-character strings, so that the regular        *)
(* expressions of the source are modelled character by character.  An      *)
(* optional value is <<>> (Python's None) or <<v>>.  Money is an integer   *)
(* number of mills (1/1000 of a currency unit) so that round(x, 2) is a    *)
(* real operation; a percentage is an integer number of 1/100 percent.     *)
(***************************************************************************)
EXTENDS Integers, Sequences, FiniteSets, Bags, TLC

VARIABLES
    now,          \* the wall clock read by datetime.now()
    rec,          \* the ProductData constructed last
    prev,         \* the ProductData constructed before it
    text_in,      \* argument `text` of _sanitize_text_field
    max_length,   \* argument `max_length` of _sanitize_text_field
    text_out,     \* its return value
    sku_in,       \* argument of _is_valid_sku
    sku_out,      \* its return value
    extractor,    \* the extractor instance: its class and its base_url
    call,         \* the extract_from_html call made on it: [page, url]
    result,       \* what that call returned
    invoked,      \* a call of a function of the modules: [op, arg]
    outcome,      \* what that call returned, or the exception it raised
    earlier,      \* the earlier extract_from_html calls on the instance,
                  \* each with what it returned: [page, url, out]
    wrapper,      \* the Crawl4AIWrapper: its crawler and the crawlers made
    task,         \* the coroutines that call scrape_url on the wrapper
    semaphore,    \* the asyncio.Semaphore of the batch and its config
    batch         \* a scrape_urls call: its lists and its position

vars == <<now, rec, prev, text_in, max_length, text_out, sku_in, sku_out,
          extractor, call, result, invoked, outcome, earlier,
          wrapper, task, semaphore, batch>>

-----------------------------------------------------------------------------
(* Optional values and characters                                          *)

None == <<>>
Some(v) == <<v>>
IsNone(o) == o = <<>>
IsSome(o) == o # <<>>
Val(o) == o[1]

LowerLetters ==
    <<"a","b","c","d","e","f","g","h","i","j","k","l","m",
      "n","o","p","q","r","s","t","u","v","w","x","y","z">>
UpperLetters ==
    <<"A","B","C","D","E","F","G","H","I","J","K","L","M",
      "N","O","P","Q","R","S","T","U","V","W","X","Y","Z">>
DigitChars == <<"0","1","2","3","4","5","6","7","8","9">>
OtherChars ==
    <<" ", "\n", ".", "-", "_", "/", "\\", ":", ";", ",", "=", "\"", "'",
      "{", "}", "[", "]", "<", ">", "@", "&", "#", "(", ")", "%", "?">>

CharTable == LowerLetters \o UpperLetters \o DigitChars \o OtherChars

Range(s) == {s[i] : i \in 1..Len(s)}

Lowers == Range(LowerLetters)
Uppers == Range(UpperLetters)
Letters == Lowers \cup Uppers
Digits == Range(DigitChars)
AllChars == Range(CharTable)

\* str.isspace for the characters of the model
IsSpace(c) == c \in {" ", "\n"}

\* ord(c), as a position of CharTable
CodeOf == [c \in AllChars |-> CHOOSE i \in 1..Len(CharTable) : CharTable[i] = c]

\* str.lower on one character
LowerOf ==
    [c \in AllChars |->
        IF c \in Uppers THEN LowerLetters[CodeOf[c] - 26] ELSE c]

\* str.lower
Lower(s) == [i \in 1..Len(s) |-> LowerOf[s[i]]]

\* s[i:] for a 1-based i
From(s, i) == SubSeq(s, i, Len(s))

\* s.startswith(p) at 1-based position i
StartsAt(s, i, p) ==
    /\ i + Len(p) - 1 <= Len(s)
    /\ \A k \in 1..Len(p) : s[i + k - 1] = p[k]

StartsWith(s, p) == StartsAt(s, 1, p)

\* p in s
Contains(s, p) == \E i \in 1..(Len(s) - Len(p) + 1) : StartsAt(s, i, p)

\* the number of leading characters of s[i:] that satisfy the class cls
RECURSIVE RunLen(_, _, _)
RunLen(s, i, cls) ==
    IF i <= Len(s) /\ s[i] \in cls THEN 1 + RunLen(s, i + 1, cls) ELSE 0

\* str.strip(): whitespace removed at both ends
RECURSIVE LStrip(_)
LStrip(s) ==
    IF s # <<>> /\ IsSpace(s[1]) THEN LStrip(Tail(s)) ELSE s

RECURSIVE RStrip(_)
RStrip(s) ==
    IF s # <<>> /\ IsSpace(s[Len(s)]) THEN RStrip(SubSeq(s, 1, Len(s) - 1)) ELSE s

Strip(s) == RStrip(LStrip(s))

\* ' '.join(s.split()): runs of whitespace become one space, none at the ends
RECURSIVE SqueezeWs(_)
SqueezeWs(s) ==
    IF s = <<>> THEN <<>>
    ELSE IF IsSpace(s[1])
         THEN IF Len(s) >= 2 /\ IsSpace(s[2]) THEN SqueezeWs(Tail(s))
              ELSE <<" ">> \o SqueezeWs(Tail(s))
         ELSE <<s[1]>> \o SqueezeWs(Tail(s))

JoinSplit(s) == Strip(SqueezeWs(s))

\* Python's truth value of an optional string: None and "" are false
Truthy(o) == IsSome(o) /\ Val(o) # <<>>

\* f"{o}" of an optional string: None is formatted as the text None
Fmt(o) == IF IsNone(o) THEN <<"N","o","n","e">> ELSE Val(o)

\* `o or ''`
OrEmpty(o) == IF Truthy(o) THEN Val(o) ELSE <<>>

-----------------------------------------------------------------------------
(* product_schemas.py: ProductData                                         *)

HexChars == <<"0","1","2","3","4","5","6","7","8","9","a","b","c","d","e","f">>

\* One round of the digest: the bytes of s, each weighted by its position,
\* are added up.  k selects the weights of the round.
Absorb(s, k) ==
    (k + BagCardinality([i \in 1..Len(s) |->
                           CodeOf[s[i]] * (((i * k) % 251) + 1)])) % 65521

\* Four hexadecimal digits of h, most significant first
Hex4(h) ==
    <<HexChars[((h \div 4096) % 16) + 1], HexChars[((h \div 256) % 16) + 1],
      HexChars[((h \div 16) % 16) + 1], HexChars[(h % 16) + 1]>>

\* hashlib.md5(content.encode()).hexdigest()[:16]: a deterministic digest of
\* the bytes of content, rendered as 16 hexadecimal digits.  MD5 itself is
\* library code; the model digests the same bytes with a small mixing
\* function, four rounds of four digits.
Md5Hex16(content) ==
    Hex4(Absorb(content, 7)) \o Hex4(Absorb(content, 11))
        \o Hex4(Absorb(content, 13)) \o Hex4(Absorb(content, 17))

\* The text _generate_product_key digests:
\* f"{self.url}:{self.name}:{self.brand or ''}:{self.sku or ''}"
KeyContent(url, name, brand, sku) ==
    Fmt(url) \o <<":">> \o Fmt(name) \o <<":">> \o OrEmpty(brand)
             \o <<":">> \o OrEmpty(sku)

\* A key that also digests the timestamp of the record.
GenerateProductKeyTimed(a, t) ==
    Md5Hex16(KeyContent(a.url, a.name, a.brand, a.sku) \o <<DigitChars[t + 1]>>)

\* ProductData._generate_product_key, on the fields as passed in; t is the
\* value of scraped_at
GenerateProductKey(a, t) ==
    Md5Hex16(KeyContent(a.url, a.name, a.brand, a.sku))

\* round(x, 2) on mills: the nearest multiple of 10
Round2(m) == ((m + 5) \div 10) * 10

\* round(n / d, 0) for d > 0
RoundDiv(n, d) == (2 * n + d) \div (2 * d)

\* _calculate_discounts without the three defaults at its head: the values
\* passed to the constructor survive when no discount is computed.
CalculateDiscountsNoDefaults(a) ==
    IF IsSome(a.current_price) /\ IsSome(a.original_price)
       /\ Val(a.original_price) > 0
    THEN LET amount == Round2(Val(a.original_price) - Val(a.current_price))
         IN  [has_discount |-> Some(amount > 0),
              discount_amount |-> Some(amount),
              discount_percent |->
                  Some(RoundDiv(amount * 10000, Val(a.original_price)))]
    ELSE [has_discount |-> a.has_discount,
          discount_amount |-> a.discount_amount,
          discount_percent |-> a.discount_percent]

\* ProductData._calculate_discounts: [has_discount, discount_amount,
\* discount_percent] from the prices as passed in (not yet rounded)
CalculateDiscounts(a) ==
    IF IsSome(a.current_price) /\ IsSome(a.original_price)
       /\ Val(a.original_price) > 0
    THEN LET amount == Round2(Val(a.original_price) - Val(a.current_price))
         IN  [has_discount |-> Some(amount > 0),
              discount_amount |-> Some(amount),
              discount_percent |->
                  Some(RoundDiv(amount * 10000, Val(a.original_price)))]
    ELSE [has_discount |-> Some(FALSE),
          discount_amount |-> Some(0),
          discount_percent |-> Some(0)]

\* `x.strip() if x else x` and `' '.join(x.split()) if x else x`
StripIfTruthy(o) == IF Truthy(o) THEN Some(Strip(Val(o))) ELSE o
JoinSplitIfTruthy(o) == IF Truthy(o) THEN Some(JoinSplit(Val(o))) ELSE o

HttpPrefix == <<"h","t","t","p",":","/","/">>
HttpsPrefix == <<"h","t","t","p","s",":","/","/">>

\* [img for img in images if img and img.startswith(('http://','https://'))]
FilterImages(images) ==
    SelectSeq(images, LAMBDA img : StartsWith(img, HttpPrefix)
                                   \/ StartsWith(img, HttpsPrefix))

\* ProductData._clean_data, on the record d left by _calculate_discounts
CleanData(d) ==
    [d EXCEPT
        !.current_price =
            IF IsSome(@) THEN Some(Round2(Val(@))) ELSE @,
        !.original_price =
            IF IsSome(@) THEN Some(Round2(Val(@))) ELSE @,
        !.discount_percent = IF IsNone(@) THEN Some(0) ELSE @,
        !.discount_amount =
            IF IsNone(@) THEN Some(0) ELSE Some(Round2(Val(@))),
        !.has_discount = IF IsNone(@) THEN FALSE ELSE Val(@),
        !.name = JoinSplitIfTruthy(@),
        !.description = JoinSplitIfTruthy(@),
        !.brand = StripIfTruthy(@),
        !.model = StripIfTruthy(@),
        !.sku = StripIfTruthy(@),
        !.images = FilterImages(@)]

\* ProductData(**a) at time t: the dataclass constructor and __post_init__.
\* The retailer field, which no operation of the model reads, is left out.
ProductData(a, t) ==
    LET disc == CalculateDiscounts(a)
    IN  CleanData(
          [a EXCEPT
              !.scraped_at = IF IsNone(@) THEN Some(t) ELSE @,
              !.product_key =
                  IF Truthy(@) THEN @ ELSE Some(GenerateProductKey(a, t)),
              !.has_discount = disc.has_discount,
              !.discount_amount = disc.discount_amount,
              !.discount_percent = disc.discount_percent])

\* The constructor's defaults: the dataclass field declarations
Defaults ==
    [name |-> Some(<<>>), url |-> Some(<<>>), description |-> None,
     product_key |-> None,
     current_price |-> None, original_price |-> None,
     has_discount |-> Some(FALSE), discount_percent |-> None,
     discount_amount |-> None,
     brand |-> None, model |-> None, sku |-> None, category |-> None,
     volume |-> None, dimensions |-> None, material |-> None, color |-> None,
     images |-> <<>>, scraped_at |-> None]


-----------------------------------------------------------------------------
(* product_extractor.py: the regular expressions of _sanitize_text_field   *)

Quote == "\""
Spaces == {" ", "\n"}

\* [^\s<>"\']
UrlChars == AllChars \ {" ", "\n", "<", ">", "\"", "'"}
\* [a-zA-Z0-9.-]
DomainChars == Letters \cup Digits \cup {".", "-"}
\* [^"\s]
ClassNameChars == AllChars \ {"\"", " ", "\n"}

\* The first position j >= i with m[j] = c, or 0
RECURSIVE IndexFrom(_, _, _)
IndexFrom(m, i, c) ==
    IF i > Len(m) THEN 0
    ELSE IF m[i] = c THEN i ELSE IndexFrom(m, i + 1, c)

\* pre[^c]*c at i: the length of the match, or 0
DelimitedLen(m, i, pre, c) ==
    IF StartsAt(m, i, pre)
    THEN LET j == IndexFrom(m, i + Len(pre), c)
         IN  IF j = 0 THEN 0 ELSE j - i + 1
    ELSE 0

\* pre[cls]* at i
PrefixRunLen(m, i, pre, cls) ==
    IF StartsAt(m, i, pre) THEN Len(pre) + RunLen(m, i + Len(pre), cls) ELSE 0

\* pre[cls]+ at i
PrefixRun1Len(m, i, pre, cls) ==
    IF StartsAt(m, i, pre) /\ RunLen(m, i + Len(pre), cls) > 0
    THEN Len(pre) + RunLen(m, i + Len(pre), cls)
    ELSE 0

LiteralLen(m, i, lit) == IF StartsAt(m, i, lit) THEN Len(lit) ELSE 0

\* [a-zA-Z0-9.-]+\.[a-zA-Z]{2,}(?:/[^\s<>"\']*)? at i.  The first group is
\* greedy: of the dots of the leading run that are followed by two letters,
\* the last one ends it.
DomainLen(m, i) ==
    LET r == RunLen(m, i, DomainChars)
        ks == {k \in 1..(r - 1) :
                  /\ m[i + k] = "."
                  /\ RunLen(m, i + k + 1, Letters) >= 2}
    IN  IF ks = {} THEN 0
        ELSE LET k == CHOOSE x \in ks : \A y \in ks : y <= x
                 tld == RunLen(m, i + k + 1, Letters)
                 e == i + k + 1 + tld
                 path == IF e <= Len(m) /\ m[e] = "/"
                         THEN 1 + RunLen(m, e + 1, UrlChars) ELSE 0
             IN  k + 1 + tld + path

\* \s*:\s*"[^"]*" at j: the position after the match, or 0
ColonValueEnd(m, j) ==
    LET c == j + RunLen(m, j, Spaces)
    IN  IF c <= Len(m) /\ m[c] = ":"
        THEN LET q == c + 1 + RunLen(m, c + 1, Spaces)
             IN  IF q <= Len(m) /\ m[q] = Quote
                 THEN LET z == IndexFrom(m, q + 1, Quote)
                      IN  IF z = 0 THEN 0 ELSE z + 1
                 ELSE 0
        ELSE 0

\* key\s*:\s*"[^"]*" at i, for a literal key
LiteralKeyLen(m, i, key) ==
    IF StartsAt(m, i, key)
    THEN LET e == ColonValueEnd(m, i + Len(key))
         IN  IF e = 0 THEN 0 ELSE e - i
    ELSE 0

\* pre[^"]*"\s*:\s*"[^"]*" at i, for the opening pre of a quoted key
QuotedKeyLen(m, i, pre) ==
    IF StartsAt(m, i, pre)
    THEN LET z == IndexFrom(m, i + Len(pre), Quote)
             e == IF z = 0 THEN 0 ELSE ColonValueEnd(m, z + 1)
         IN  IF e = 0 THEN 0 ELSE e - i
    ELSE 0

\* \d{4}-\d{2}-\d{2}[T\s]\d{2}:\d{2}:\d{2} under re.IGNORECASE
IsoShape ==
    <<Digits, Digits, Digits, Digits, {"-"}, Digits, Digits, {"-"},
      Digits, Digits, {"t", " ", "\n"}, Digits, Digits, {":"},
      Digits, Digits, {":"}, Digits, Digits>>

IsoLen(m, i) ==
    IF /\ i + Len(IsoShape) - 1 <= Len(m)
       /\ \A k \in 1..Len(IsoShape) : m[i + k - 1] \in IsoShape[k]
    THEN Len(IsoShape) ELSE 0

\* The patterns of _sanitize_text_field, in the order it applies them.  The
\* patterns applied with re.IGNORECASE are matched on the lowered text.
CssPatterns ==
    <<"class", "infoLabel", "infoValue", "style", "id", "label", "label_end",
      "span", "span_end", "div", "div_end">>
UrlPatterns == <<"http", "www", "domain">>
BlockPatterns == <<"braces", "brackets">>
JsonPatterns == <<"name_key", "type_key", "at_key", "any_key", "literal", "iso">>

\* The patterns of _sanitize_color_field, in the order it applies them; the
\* last of them is also the one pattern of _sanitize_dimensions_field
CssColorPatterns ==
    <<"hex", "rgb", "rgba", "hsl", "hsla", "color_decl", "background_decl",
      "var">>

\* [0-9a-fA-F] under re.IGNORECASE
HexDigits == Digits \cup {"a", "b", "c", "d", "e", "f"}

\* #[0-9a-fA-F]{3,6} at i
HexCodeLen(m, i) ==
    IF i <= Len(m) /\ m[i] = "#" /\ RunLen(m, i + 1, HexDigits) >= 3
    THEN IF RunLen(m, i + 1, HexDigits) > 6 THEN 7
         ELSE 1 + RunLen(m, i + 1, HexDigits)
    ELSE 0

\* pre[^c]+c at i: the length of the match, or 0
Delimited1Len(m, i, pre, c) ==
    IF StartsAt(m, i, pre) /\ IndexFrom(m, i + Len(pre), c) > i + Len(pre)
    THEN IndexFrom(m, i + Len(pre), c) - i + 1
    ELSE 0

\* [^;\\]
DeclarationChars == AllChars \ {";", "\\"}

CssColorMatchLen(p, m, i) ==
    CASE p = "hex" -> HexCodeLen(m, i)
      [] p = "rgb" -> Delimited1Len(m, i, <<"r","g","b","(">>, ")")
      [] p = "rgba" -> Delimited1Len(m, i, <<"r","g","b","a","(">>, ")")
      [] p = "hsl" -> Delimited1Len(m, i, <<"h","s","l","(">>, ")")
      [] p = "hsla" -> Delimited1Len(m, i, <<"h","s","l","a","(">>, ")")
      [] p = "color_decl" ->
            PrefixRun1Len(m, i, <<"c","o","l","o","r",":">>, DeclarationChars)
      [] p = "background_decl" ->
            PrefixRun1Len(m, i, <<"b","a","c","k","g","r","o","u","n","d",":">>,
                          DeclarationChars)
      [] p = "var" -> Delimited1Len(m, i, <<"v","a","r","(">>, ")")

IgnoreCase(p) ==
    p \in Range(CssPatterns) \cup Range(JsonPatterns) \cup Range(CssColorPatterns)

\* The length of the match of pattern p at position i of m, 0 if none (no
\* pattern of the function matches the empty string)
MatchLen(p, m, i) ==
    CASE p = "class" -> DelimitedLen(m, i, <<"c","l","a","s","s","=","\"">>, Quote)
      [] p = "infoLabel" ->
            PrefixRunLen(m, i,
                <<"q","u","i","c","k","i","n","f","o","-","i","n","f","o",
                  "l","a","b","e","l","-">>, ClassNameChars)
      [] p = "infoValue" ->
            PrefixRunLen(m, i,
                <<"q","u","i","c","k","i","n","f","o","-","i","n","f","o",
                  "v","a","l","u","e","-">>, ClassNameChars)
      [] p = "style" -> DelimitedLen(m, i, <<"s","t","y","l","e","=","\"">>, Quote)
      [] p = "id" -> DelimitedLen(m, i, <<"i","d","=","\"">>, Quote)
      [] p = "label" -> DelimitedLen(m, i, <<"<","l","a","b","e","l">>, ">")
      [] p = "label_end" -> LiteralLen(m, i, <<"<","/","l","a","b","e","l",">">>)
      [] p = "span" -> DelimitedLen(m, i, <<"<","s","p","a","n">>, ">")
      [] p = "span_end" -> LiteralLen(m, i, <<"<","/","s","p","a","n",">">>)
      [] p = "div" -> DelimitedLen(m, i, <<"<","d","i","v">>, ">")
      [] p = "div_end" -> LiteralLen(m, i, <<"<","/","d","i","v",">">>)
      [] p = "http" ->
            IF StartsAt(m, i, <<"h","t","t","p","s">>)
            THEN PrefixRun1Len(m, i, HttpsPrefix, UrlChars)
            ELSE PrefixRun1Len(m, i, HttpPrefix, UrlChars)
      [] p = "www" -> PrefixRun1Len(m, i, <<"w","w","w",".">>, UrlChars)
      [] p = "domain" -> DomainLen(m, i)
      [] p = "braces" -> DelimitedLen(m, i, <<"{">>, "}")
      [] p = "brackets" -> DelimitedLen(m, i, <<"[">>, "]")
      [] p = "name_key" -> LiteralKeyLen(m, i, <<Quote,"n","a","m","e",Quote>>)
      [] p = "type_key" -> LiteralKeyLen(m, i, <<Quote,"t","y","p","e",Quote>>)
      [] p = "at_key" -> QuotedKeyLen(m, i, <<Quote, "@">>)
      [] p = "any_key" -> QuotedKeyLen(m, i, <<Quote>>)
      [] p = "literal" ->
            IF StartsAt(m, i, <<"t","r","u","e">>) THEN 4
            ELSE IF StartsAt(m, i, <<"f","a","l","s","e">>) THEN 5
            ELSE IF StartsAt(m, i, <<"n","u","l","l">>) THEN 4
            ELSE 0
      [] p = "iso" -> IsoLen(m, i)
      [] OTHER -> CssColorMatchLen(p, m, i)

\* re.sub(p, '', s): the leftmost matches, none overlapping, are removed; m is
\* the text the pattern is matched on (s, or s lowered)
RECURSIVE SubFrom(_, _, _, _)
SubFrom(p, s, m, i) ==
    IF i > Len(s) THEN <<>>
    ELSE LET n == MatchLen(p, m, i)
         IN  IF n > 0 THEN SubFrom(p, s, m, i + n)
             ELSE <<s[i]>> \o SubFrom(p, s, m, i + 1)

Sub(p, s) == SubFrom(p, s, IF IgnoreCase(p) THEN Lower(s) ELSE s, 1)

\* for pattern in ps: s = re.sub(pattern, '', s).  The patterns are applied
\* in their order: those of the first half of ps, then those of the second
\* half on the text the first half leaves.
RECURSIVE SubEach(_, _)
SubEach(ps, s) ==
    IF ps = <<>> THEN s
    ELSE IF Len(ps) = 1 THEN Sub(ps[1], s)
    ELSE CHOOSE out \in
           {SubEach(SubSeq(ps, (Len(ps) \div 2) + 1, Len(ps)), t) :
              t \in {SubEach(SubSeq(ps, 1, Len(ps) \div 2), s)}} : TRUE

-----------------------------------------------------------------------------
(* product_extractor.py: _sanitize_text_field                              *)

\* re.sub(r'[{}[\]"\',:;\\<>]', '', text)
Punctuation == {"{", "}", "[", "]", "\"", "'", ",", ":", ";", "\\", "<", ">"}

RemoveChars(s, cls) == SelectSeq(s, LAMBDA c : c \notin cls)

\* text.rstrip(',;')
RECURSIVE RStripChars(_, _)
RStripChars(s, cls) ==
    IF s # <<>> /\ s[Len(s)] \in cls
    THEN RStripChars(SubSeq(s, 1, Len(s) - 1), cls) ELSE s

\* The prefixes and the characters the final validation rejects
BadPrefixes ==
    {<<"h","t","t","p">>, <<"w","w","w">>, <<"d","a","t","a",":">>,
     <<"c","l","a","s","s","=">>, <<"s","t","y","l","e","=">>}
BadChars == {"{", "}", "[", "]", "\"", "'", "\\", "<", ">", "="}

\* The text of _sanitize_text_field before its final validation
CleanStages(text) ==
    JoinSplit(
      RStripChars(
        RemoveChars(
          SubEach(CssPatterns \o UrlPatterns \o BlockPatterns \o JsonPatterns,
                  text),
          Punctuation),
        {",", ";"}))

\* The final validation with the length test left out
ValidCleanedAnyLength(t, maxlen) ==
    /\ t # <<>>
    /\ Len(t) > 1
    /\ \A p \in BadPrefixes : ~StartsWith(Lower(t), p)
    /\ \A i \in 1..Len(t) : t[i] \notin BadChars

\* The final validation of _sanitize_text_field
ValidCleaned(t, maxlen) ==
    /\ t # <<>>
    /\ Len(t) > 1
    /\ Len(t) <= maxlen
    /\ \A p \in BadPrefixes : ~StartsWith(Lower(t), p)
    /\ \A i \in 1..Len(t) : t[i] \notin BadChars

\* The end of _sanitize_text_field: the cleaned text t is returned if the
\* final validation accepts it
Validated(t, maxlen) == IF ValidCleaned(t, maxlen) THEN Some(Strip(t)) ELSE None

\* ProductExtractor._sanitize_text_field(text, max_length): None or the
\* cleaned text
SanitizeTextField(text, maxlen) ==
    IF text = <<>> THEN None ELSE Validated(CleanStages(text), maxlen)

-----------------------------------------------------------------------------
(* product_extractor.py: _is_valid_sku                                     *)

\* The longest SKU _is_valid_sku accepts
MaxSkuLen == 50

\* [A-Za-z0-9\-_]
SkuChars == Letters \cup Digits \cup {"-", "_"}

\* The substrings that make a SKU a URL
SkuDomainMarkers ==
    {<<".","c","o","m">>, <<".","c","o",".","t","h">>, <<".","n","e","t">>,
     <<".","o","r","g">>}
SkuPathMarkers ==
    {<<"/","p","r","o","d","u","c","t","/">>, <<"/","i","t","e","m","/">>,
     <<"/","c","a","t","e","g","o","r","y","/">>,
     <<"/","s","e","a","r","c","h","/">>, <<"/","p","a","g","e","/">>}

\* `$` of Python's re after n matched characters of s: the end of s, or the
\* position before a newline that ends s
AtDollar(s, n) ==
    \/ n = Len(s)
    \/ n = Len(s) - 1 /\ s[Len(s)] = "\n"

\* re.match(r'^\d{4}[-/]\d{2}[-/]\d{2}$', sku)
DateShape ==
    <<Digits, Digits, Digits, Digits, {"-", "/"}, Digits, Digits, {"-", "/"},
      Digits, Digits>>
IsBareDate(s) ==
    /\ Len(s) >= Len(DateShape)
    /\ \A k \in 1..Len(DateShape) : s[k] \in DateShape[k]
    /\ AtDollar(s, Len(DateShape))

\* re.match(r'^[A-Za-z0-9\-_]+$', sku)
IsSkuShaped(s) ==
    LET r == RunLen(s, 1, SkuChars)
    IN  r >= 1 /\ AtDollar(s, r)

\* ProductExtractor._is_valid_sku
IsValidSku(sku) ==
    /\ sku # <<>>
    /\ Len(sku) >= 2 /\ Len(sku) <= MaxSkuLen
    /\ ~StartsWith(Lower(sku), <<"h","t","t","p">>)
    /\ ~StartsWith(Lower(sku), <<"h","t","t","p","s">>)
    /\ ~StartsWith(Lower(sku), <<"w","w","w">>)
    /\ \A d \in SkuDomainMarkers \cup SkuPathMarkers : ~Contains(Lower(sku), d)
    /\ ~Contains(sku, <<"/">>) /\ ~Contains(sku, <<"\\">>)
    /\ ~IsBareDate(sku)
    /\ IsSkuShaped(sku)

\* The max_length _sanitize_sku_field passes to _sanitize_text_field
SkuTextLen == 50

\* The end of _sanitize_sku_field: the sanitized text t is returned if
\* _is_valid_sku accepts it
ValidatedSku(t) == IF IsSome(t) /\ IsValidSku(Val(t)) THEN t ELSE None

\* _sanitize_sku_field without the validation that follows the sanitization
SanitizeSkuFieldUnvalidated(sku) ==
    IF sku = <<>> THEN None ELSE SanitizeTextField(sku, SkuTextLen)

\* ProductExtractor._sanitize_sku_field
SanitizeSkuField(sku) ==
    IF sku = <<>> THEN None ELSE ValidatedSku(SanitizeTextField(sku, SkuTextLen))

-----------------------------------------------------------------------------
(* product_extractor.py: _clean_text and the name, brand, SKU and price    *)
(* extraction of ProductExtractor.  A page is a record of what the         *)
(* patterns of the extractor capture in it.                                *)

\* <[^>]+> at i: the length of the match, or 0
TagLen(m, i) ==
    IF m[i] = "<"
    THEN LET j == IndexFrom(m, i + 1, ">")
         IN  IF j >= i + 2 THEN j - i + 1 ELSE 0
    ELSE 0

\* re.sub(r'<[^>]+>', ' ', text)
RECURSIVE BlankTags(_, _)
BlankTags(s, i) ==
    IF i > Len(s) THEN <<>>
    ELSE LET n == TagLen(s, i)
         IN  IF n > 0 THEN <<" ">> \o BlankTags(s, i + n)
             ELSE <<s[i]>> \o BlankTags(s, i + 1)

\* s[i:].replace(old, new)
RECURSIVE Replace(_, _, _, _)
Replace(s, i, old, new) ==
    IF i > Len(s) THEN <<>>
    ELSE IF StartsAt(s, i, old) THEN new \o Replace(s, i + Len(old), old, new)
    ELSE <<s[i]>> \o Replace(s, i + 1, old, new)

\* The entity replacements of _clean_text, in its order
Entities ==
    << <<<<"&","n","b","s","p",";">>, <<" ">>>>,
       <<<<"&","a","m","p",";">>, <<"&">>>>,
       <<<<"&","l","t",";">>, <<"<">>>>,
       <<<<"&","g","t",";">>, <<">">>>> >>

RECURSIVE ReplaceEach(_, _)
ReplaceEach(es, s) ==
    IF es = <<>> THEN s
    ELSE ReplaceEach(Tail(es), Replace(s, 1, Head(es)[1], Head(es)[2]))

\* ProductExtractor._clean_text
CleanText(text) ==
    IF text = <<>> THEN <<>>
    ELSE Strip(JoinSplit(ReplaceEach(Entities, BlankTags(text, 1))))

\* retailer_names of _extract_product_name
RetailerNames ==
    << <<"m","e","g","a","h","o","m","e">>, <<"m","e","g","a"," ","h","o","m","e">>,
       <<"h","o","m","e","p","r","o">>, <<"h","o","m","e"," ","p","r","o">>,
       <<"b","o","o","n","t","h","a","v","o","r","n">>,
       <<"d","o","h","o","m","e">>, <<"d","o"," ","h","o","m","e">>,
       <<"g","l","o","b","a","l"," ","h","o","u","s","e">>,
       <<"t","h","a","i"," ","w","a","t","s","a","d","u">>,
       <<"w","a","t","s","a","d","u">>,
       <<"p","o","w","e","r"," ","b","u","y">>, <<"p","o","w","e","r","b","u","y">>,
       <<"l","a","z","a","d","a">>, <<"s","h","o","p","e","e">>,
       <<"c","e","n","t","r","a","l">>, <<"j","a","y","m","a","r","t">>,
       <<"V","i","v","i","n">>, <<"b","a","n","n","e","r">> >>

\* The loop of _extract_product_name that removes a leading retailer name:
\* the name it leaves.  A name that becomes shorter than 3 is kept, cut, and
\* the loop goes on with the next retailer.
RECURSIVE StripRetailer(_, _, _)
StripRetailer(name, name_lower, rs) ==
    IF rs = <<>> THEN name
    ELSE IF StartsWith(name_lower, Head(rs) \o <<" ">>)
         THEN LET cut == Strip(From(name, Len(Head(rs)) + 1))
              IN  IF Len(cut) < 3 THEN StripRetailer(cut, name_lower, Tail(rs))
                  ELSE cut
         ELSE StripRetailer(name, name_lower, Tail(rs))

\* ProductExtractor._extract_product_name, on the captures of its patterns
\* that match the page, in the order of the patterns
RECURSIVE ExtractProductName(_)
ExtractProductName(caps) ==
    IF caps = <<>> THEN None
    ELSE LET name == CleanText(Head(caps))
             name_lower == Strip(Lower(name))
         IN  IF name # <<>> /\ name_lower \in Range(RetailerNames)
             THEN ExtractProductName(Tail(caps))
             ELSE LET n == IF name # <<>>
                           THEN StripRetailer(name, name_lower, RetailerNames)
                           ELSE name
                  IN  IF Len(n) > 3 THEN Some(n)
                      ELSE ExtractProductName(Tail(caps))

\* The captures of the name patterns: <h1> before <title>
NameCaptures(page) == page.h1 \o page.title

\* The first two words of a cleaned text, joined by a space; <<>> if the
\* text has fewer than two words
FirstTwoWords(t) ==
    LET sp1 == IndexFrom(t, 1, " ")
    IN  IF sp1 = 0 THEN <<>>
        ELSE LET sp2 == IndexFrom(t, sp1 + 1, " ")
             IN  IF sp2 = 0 THEN t ELSE SubSeq(t, 1, sp2 - 1)

\* `x or y`
Or(x, y) == IF Truthy(x) THEN x ELSE y

\* ProductExtractor._sanitize_brand_field
SanitizeBrandField(brand) == SanitizeTextField(brand, 100)

\* The brand of two words of a title, sanitized
SanitizeWords(words) ==
    IF words = <<>> THEN None ELSE SanitizeBrandField(words)

\* `if clean_brand and len(clean_brand) >= 3 and clean_brand[0].isupper()`
TitleBrand(b) ==
    IF IsSome(b) /\ Len(Val(b)) >= 3 /\ Val(b)[1] \in Uppers THEN b ELSE None

\* The last loop of _extract_brand: the first two words of the title
RECURSIVE BrandFromTitles(_)
BrandFromTitles(caps) ==
    IF caps = <<>> THEN None
    ELSE Or(TitleBrand(SanitizeWords(FirstTwoWords(CleanText(Head(caps))))),
            BrandFromTitles(Tail(caps)))

\* The brand _extract_brand takes from the JSON-LD block
JsonLdBrand(page) ==
    IF IsSome(page.json_ld) /\ Truthy(Val(page.json_ld).brand)
    THEN SanitizeBrandField(Val(Val(page.json_ld).brand))
    ELSE None

\* ProductExtractor._extract_brand: the JSON-LD brand first, then the
\* title (<title> before <h1>)
ExtractBrand(page) ==
    Or(JsonLdBrand(page), BrandFromTitles(page.title \o page.h1))

\* re.search of pre(cls{n,}) in s, matched on m (s, or s lowered): the
\* group of the leftmost match, greedy, or None
RECURSIVE SearchRun(_, _, _, _, _, _)
SearchRun(s, m, i, pres, cls, n) ==
    IF i > Len(m) THEN None
    ELSE LET hits == {p \in pres : StartsAt(m, i, p)
                                   /\ RunLen(m, i + Len(p), cls) >= n}
         IN  IF hits # {}
             THEN LET p == CHOOSE x \in hits : TRUE
                  IN  Some(SubSeq(s, i + Len(p),
                                  i + Len(p) + RunLen(m, i + Len(p), cls) - 1))
             ELSE SearchRun(s, m, i + 1, pres, cls, n)

\* [^/] and [^/&]
NonSlash == AllChars \ {"/"}
NonSlashAmp == AllChars \ {"/", "&"}

\* re.search(r'<marker>([^/]+?)(?:/|$)', s, re.IGNORECASE) from position i:
\* the lazy group ends at the next "/" or at the end of s, and $ also
\* matches before a newline that ends s
RECURSIVE LazySegment(_, _, _)
LazySegment(s, i, marker) ==
    IF i > Len(s) THEN None
    ELSE LET g == i + Len(marker)
             r == RunLen(s, g, NonSlash)
         IN  IF StartsAt(Lower(s), i, marker) /\ r >= 1
             THEN IF r >= 2 /\ g + r - 1 = Len(s) /\ s[Len(s)] = "\n"
                  THEN Some(SubSeq(s, g, g + r - 2))
                  ELSE Some(SubSeq(s, g, g + r - 1))
             ELSE LazySegment(s, i + 1, marker)

\* re.search(r'-(\d+)$', s): the leftmost "-" that is followed by digits up
\* to the end of s (or up to a newline that ends s)
RECURSIVE DigitsAtEnd(_, _)
DigitsAtEnd(s, i) ==
    IF i > Len(s) THEN None
    ELSE LET r == RunLen(s, i + 1, Digits)
         IN  IF s[i] = "-" /\ r >= 1 /\ AtDollar(s, i + r)
             THEN Some(SubSeq(s, i + 1, i + r))
             ELSE DigitsAtEnd(s, i + 1)

\* match.group(1).strip(), then the _is_valid_sku gate
ValidGroup(g) ==
    IF IsSome(g) /\ IsValidSku(Strip(Val(g))) THEN Some(Strip(Val(g))) ELSE None

\* The first candidate of a sequence that passes the gate
RECURSIVE FirstValid(_)
FirstValid(gs) ==
    IF gs = <<>> THEN None
    ELSE Or(ValidGroup(Head(gs)), FirstValid(Tail(gs)))

\* The URL patterns of _extract_sku, in its order
UrlSkuGroups(u) ==
    << LazySegment(u, 1, <<"/","p","r","o","d","u","c","t","/">>),
       LazySegment(u, 1, <<"/","i","t","e","m","/">>),
       LazySegment(u, 1, <<"/","p","/">>),
       SearchRun(u, Lower(u), 1, {<<"s","k","u","=">>, <<"s","k","u","/">>},
                 NonSlashAmp, 1),
       SearchRun(u, u, 1, {<<"/">>}, Digits, 6),
       SearchRun(u, Lower(u), 1, {<<"-">>}, Lowers \cup Digits, 4) >>

\* `if sku and len(sku) > 1: clean_sku = self._sanitize_sku_field(sku)`
SkuOfCapture(sku) == IF Len(sku) > 1 THEN SanitizeSkuField(sku) ELSE None

\* The loop of _extract_sku over the captures of its HTML patterns
RECURSIVE SkuFromCaptures(_)
SkuFromCaptures(caps) ==
    IF caps = <<>> THEN None
    ELSE Or(SkuOfCapture(CleanText(Head(caps))), SkuFromCaptures(Tail(caps)))

\* The captures of the HTML patterns of _extract_sku: those of the SKU
\* markup, and what SKU[:\s]*([^\n<]+) captures after the key of the "sku"
\* member of a JSON-LD block (one member on each line)
SkuCaptures(page) ==
    page.sku_caps \o
    (IF IsSome(page.json_ld) /\ IsSome(Val(page.json_ld).sku)
     THEN << <<Quote, ":", " ", Quote>> \o Val(Val(page.json_ld).sku)
             \o <<Quote, ",">> >>
     ELSE <<>>)

\* The loop of _extract_sku over its URL patterns
SkuFromUrl(base) ==
    IF Truthy(base) THEN FirstValid(UrlSkuGroups(Val(base))) ELSE None

\* ProductExtractor._extract_sku: the page first, then self.base_url
ExtractSku(page, base) ==
    Or(SkuFromCaptures(SkuCaptures(page)), SkuFromUrl(base))

RECURSIVE SeqMax(_)
SeqMax(s) ==
    IF Len(s) = 1 THEN s[1]
    ELSE LET r == SeqMax(Tail(s)) IN IF s[1] > r THEN s[1] ELSE r

RECURSIVE SeqMin(_)
SeqMin(s) ==
    IF Len(s) = 1 THEN s[1]
    ELSE LET r == SeqMin(Tail(s)) IN IF s[1] < r THEN s[1] ELSE r

\* ProductExtractor._extract_prices, from the parsed prices of the price
\* markup (all_prices) and of the original-price markup (orig_prices):
\* <<current_price, original_price>>
ExtractPrices(page) ==
    IF page.orig_prices # <<>>
    THEN LET original == SeqMax(page.orig_prices)
             other == SelectSeq(page.all_prices, LAMBDA p : p # original)
         IN  <<IF other # <<>> THEN Some(SeqMin(other)) ELSE None,
               Some(original)>>
    ELSE IF page.all_prices # <<>>
    THEN IF Len(page.all_prices) >= 2
         THEN <<Some(SeqMin(page.all_prices)), Some(SeqMax(page.all_prices))>>
         ELSE <<Some(page.all_prices[1]), None>>
    ELSE <<None, None>>

\* The value normalize_product_data stores for a text field:
\* str(value).strip() if value else None, and the constructor's default
\* when the extraction found nothing
NormalizeText(o, default) ==
    IF IsNone(o) THEN default
    ELSE IF Truthy(o) THEN Some(Strip(Val(o))) ELSE None

\* normalize_product_data(raw_data) at time t, as constructor arguments
NormalizeProductData(raw, t) ==
    [Defaults EXCEPT
        !.name = NormalizeText(raw.name, @),
        !.url = NormalizeText(raw.url, @),
        !.brand = NormalizeText(raw.brand, @),
        !.sku = NormalizeText(raw.sku, @),
        !.current_price = raw.current_price,
        !.original_price = raw.original_price,
        !.images = SelectSeq(raw.images, LAMBDA img : img # <<>>),
        !.discount_amount = Some(0),
        !.discount_percent = Some(0),
        !.has_discount = Some(FALSE),
        !.scraped_at = Some(t)]

\* What extract_from_html returns: None, a record, or an exception that
\* leaves the method
NoRecord == [kind |-> "none", data |-> ProductData(Defaults, 0)]
Raised == [kind |-> "raised", data |-> ProductData(Defaults, 0)]
Record(d) == [kind |-> "record", data |-> d]

\* `if x: x = sanitize(x)`
SanitizeIfTruthy(o, maxlen) ==
    IF Truthy(o) THEN SanitizeTextField(Val(o), maxlen) ELSE o

\* `if sku: sku = self._sanitize_sku_field(sku)`
SanitizeSkuIfTruthy(o) == IF Truthy(o) THEN SanitizeSkuField(Val(o)) ELSE o

\* The schemes _resolve_url skips
SkippedSchemes ==
    {<<"d","a","t","a",":">>, <<"m","a","i","l","t","o",":">>,
     <<"t","e","l",":">>,
     <<"j","a","v","a","s","c","r","i","p","t",":">>}

\* The position of the "/" that ends the host of an absolute URL u, or
\* Len(u) + 1 if the URL has no path
HostEnd(u) ==
    IF IndexFrom(u, IndexFrom(u, 1, "/") + 2, "/") = 0 THEN Len(u) + 1
    ELSE IndexFrom(u, IndexFrom(u, 1, "/") + 2, "/")

\* urljoin(base, ref) for an absolute base and a reference that is an
\* absolute path: the scheme and the host of base, then ref
UrlJoin(base, ref) == SubSeq(base, 1, HostEnd(base) - 1) \o ref

\* ProductExtractor._resolve_url(url), self.base_url being base
ResolveUrl(u, base) ==
    IF u = <<>> THEN None
    ELSE IF \E p \in SkippedSchemes : StartsWith(u, p) THEN None
    ELSE IF StartsWith(u, HttpPrefix) \/ StartsWith(u, HttpsPrefix) THEN Some(u)
    ELSE IF Truthy(base) THEN Some(UrlJoin(Val(base), u))
    ELSE Some(u)

\* `if img_url and img_url not in images: images.append(img_url)`
AppendNew(images, r) ==
    IF Truthy(r) /\ Val(r) \notin Range(images) THEN Append(images, Val(r))
    ELSE images

\* The two loops of _extract_images: every candidate of urls is resolved
\* and appended to images unless it is there already
RECURSIVE AppendResolved(_, _, _)
AppendResolved(images, urls, base) ==
    IF urls = <<>> THEN images
    ELSE AppendResolved(AppendNew(images, ResolveUrl(Head(urls), base)),
                        Tail(urls), base)

\* The most images _extract_images returns
MaxImages == 10

\* images[:10]
FirstImages(images) ==
    IF Len(images) > MaxImages THEN SubSeq(images, 1, MaxImages) ELSE images

\* The image values extract_from_json_ld finds in the page
JsonLdImages(page) ==
    IF IsSome(page.json_ld) THEN Val(page.json_ld).image ELSE <<>>

\* ProductExtractor._extract_images, self.base_url being base: the captures
\* of the image markup (stripped) first, then the JSON-LD images
ExtractImages(page, base) ==
    FirstImages(AppendResolved(<<>>, page.img_caps \o JsonLdImages(page), base))

\* raw_data of extract_from_html, self.base_url being b
RawData(page, b, url) ==
    [name |-> ExtractProductName(NameCaptures(page)),
     brand |-> SanitizeIfTruthy(ExtractBrand(page), 100),
     sku |-> SanitizeSkuIfTruthy(ExtractSku(page, b)),
     current_price |-> ExtractPrices(page)[1],
     original_price |-> ExtractPrices(page)[2],
     images |-> ExtractImages(page, b),
     url |-> Or(url, b)]

\* ProductExtractor.extract_from_html(html_content, url) on an extractor
\* whose base_url is base, at time t: [base_url, out], the base_url it
\* leaves and what it returns
BaseExtractFromHtml(base, page, url, t) ==
    IF ~page.html THEN [base_url |-> base, out |-> NoRecord]
    ELSE [base_url |-> Or(url, base),
          out |-> Record(ProductData(
                     NormalizeProductData(RawData(page, Or(url, base), url), t),
                     t))]

\* re.search(r'/sku/(\d+)', url) and re.search(r'/p/(\d+)', url)
SkuPathDigits(u) == SearchRun(u, u, 1, {<<"/","s","k","u","/">>}, Digits, 1)
PPathDigits(u) == SearchRun(u, u, 1, {<<"/","p","/">>}, Digits, 1)

\* The SKU ThaiWatsaduExtractor reads in the URL
ThaiWatsaduUrlSku(url) ==
    IF Truthy(url) THEN ValidGroup(SkuPathDigits(Val(url))) ELSE None

\* `product.sku = potential_sku` on what the generic extraction returned
ThaiWatsaduPatch(out, sku) ==
    IF out.kind = "record" /\ IsSome(sku)
    THEN Record([out.data EXCEPT !.sku = sku])
    ELSE out

\* ThaiWatsaduExtractor.extract_from_html: the SKU of the URL is written
\* into the record the generic extraction returned
ThaiWatsaduExtractFromHtml(base, page, url, t) ==
    [BaseExtractFromHtml(base, page, url, t) EXCEPT
        !.out = ThaiWatsaduPatch(@, ThaiWatsaduUrlSku(url))]

\* HomeProExtractor.extract_from_html
HomeProExtractFromHtml(base, page, url, t) ==
    BaseExtractFromHtml(base, page, url, t)

MegaHomeName == <<"M","e","g","a","H","o","m","e">>

\* The SKU MegaHomeExtractor reads in the URL
MegaHomeUrlSku(url) ==
    IF Truthy(url) THEN ValidGroup(PPathDigits(Val(url))) ELSE None

\* The assignments of MegaHomeExtractor.extract_from_html to the record the
\* generic extraction returned; better is what _extract_product_name finds
MegaHomePatch(out, better, url) ==
    IF out.kind = "record"
    THEN Record([out.data EXCEPT
            !.name = IF Truthy(@) /\ Contains(Lower(Val(@)), Lower(MegaHomeName))
                     THEN IF Truthy(better) /\ Val(better) # MegaHomeName
                          THEN better ELSE None
                     ELSE @,
            !.brand = SanitizeIfTruthy(@, 100),
            !.sku = IF Truthy(@) THEN @ ELSE Or(MegaHomeUrlSku(url), @)])
    ELSE out

\* MegaHomeExtractor.extract_from_html: name, brand and sku are written
\* into the record the generic extraction returned
MegaHomeExtractFromHtml(base, page, url, t) ==
    [BaseExtractFromHtml(base, page, url, t) EXCEPT
        !.out = MegaHomePatch(@, ExtractProductName(NameCaptures(page)), url)]

NoneText == <<"N","o","n","e">>

\* `not product.sku or product.sku == 'None'`
SkuMissing(sku) == ~Truthy(sku) \/ Val(sku) = NoneText

\* The URL patterns of the SKU fallback of BoonthavornExtractor
BoonthavornUrlSkuGroups(u) ==
    << DigitsAtEnd(u, 1),
       SearchRun(u, u, 1, {<<"/","p","r","o","d","u","c","t","/">>}, NonSlash, 1),
       SearchRun(u, u, 1, {<<"/","i","t","e","m","/">>}, NonSlash, 1) >>

\* `if price:` for a JSON-LD price: a number other than 0, or a text
PriceTruthy(p) == IsSome(p) /\ (~Val(p).num \/ Val(p).val # 0)

\* BoonthavornExtractor, step 1: the members of the JSON-LD block ld are
\* written into the record p
BoonthavornJsonLd(p, ld) ==
    [p EXCEPT
        !.name = ld.name,
        !.brand = IF Truthy(ld.brand)
                  THEN SanitizeBrandField(Val(ld.brand)) ELSE @,
        !.sku = IF Truthy(ld.sku) THEN SanitizeSkuField(Val(ld.sku)) ELSE @,
        !.current_price = IF PriceTruthy(ld.price)
                          THEN Some(Val(ld.price).val) ELSE @,
        !.images = IF ld.image # <<>> THEN ld.image ELSE @]

\* float(price) of step 1 raises on a price that is a text
BoonthavornRaises(page) ==
    /\ IsSome(page.json_ld)
    /\ PriceTruthy(Val(page.json_ld).price)
    /\ ~Val(Val(page.json_ld).price).num

\* BoonthavornExtractor, step 2: the quick-info labels
BoonthavornQuickInfo(p, quick) ==
    [p EXCEPT
        !.brand = IF Truthy(quick.brand) /\ ~Truthy(@)
                  THEN Or(SanitizeBrandField(Strip(Val(quick.brand))), @)
                  ELSE @,
        !.sku = IF Truthy(quick.sku) /\ SkuMissing(@)
                THEN Or(SanitizeSkuField(Strip(Val(quick.sku))), @)
                ELSE @]

\* BoonthavornExtractor, step 3: the old price
BoonthavornOldPrice(p, old_price) ==
    [p EXCEPT
        !.original_price = IF ~(IsSome(@) /\ Val(@) # 0) /\ IsSome(old_price)
                           THEN old_price ELSE @]

\* BoonthavornExtractor, step 4: the name, description, images and material
\* of the generic extraction
BoonthavornFallback(p, out) ==
    IF out.kind = "record"
    THEN [p EXCEPT !.name = IF Truthy(@) THEN @ ELSE out.data.name,
                   !.description = IF Truthy(@) THEN @
                                   ELSE out.data.description,
                   !.images = IF @ # <<>> THEN @ ELSE out.data.images,
                   !.material = IF Truthy(out.data.material) /\ ~Truthy(@)
                                THEN out.data.material ELSE @]
    ELSE p

\* BoonthavornExtractor, step 6: the SKU of the URL
BoonthavornUrlSku(p, url) ==
    [p EXCEPT
        !.sku = IF Truthy(url) /\ SkuMissing(@)
                THEN Or(FirstValid(BoonthavornUrlSkuGroups(Val(url))), @)
                ELSE @]

\* The record of BoonthavornExtractor before the generic extraction: it is
\* constructed from the URL alone at time t
BoonthavornStructured(page, url, t) ==
    BoonthavornOldPrice(
        BoonthavornQuickInfo(
            IF IsSome(page.json_ld)
            THEN BoonthavornJsonLd(ProductData([Defaults EXCEPT !.url = url], t),
                                   Val(page.json_ld))
            ELSE ProductData([Defaults EXCEPT !.url = url], t),
            page.quick),
        page.old_price)

\* The record of BoonthavornExtractor after the generic extraction r
BoonthavornMerged(r, page, url, t) ==
    [base_url |-> r.base_url,
     out |-> Record(BoonthavornUrlSku(
                BoonthavornFallback(BoonthavornStructured(page, url, t), r.out),
                url))]

\* BoonthavornExtractor.extract_from_html: a record is constructed from the
\* URL alone, and the JSON-LD block, the quick-info labels, the old price,
\* the generic extraction and the URL are written into it afterwards
BoonthavornExtractFromHtml(base, page, url, t) ==
    IF BoonthavornRaises(page)
    THEN [base_url |-> base, out |-> Raised]
    ELSE BoonthavornMerged(BaseExtractFromHtml(base, page, url, t),
                           page, url, t)

Classes ==
    {"ProductExtractor", "ThaiWatsaduExtractor", "HomeProExtractor",
     "BoonthavornExtractor", "MegaHomeExtractor"}

\* extract_from_html of an extractor of class cls
ExtractFromHtml(cls, base, page, url, t) ==
    CASE cls = "ProductExtractor" -> BaseExtractFromHtml(base, page, url, t)
      [] cls = "ThaiWatsaduExtractor" ->
            ThaiWatsaduExtractFromHtml(base, page, url, t)
      [] cls = "HomeProExtractor" -> HomeProExtractFromHtml(base, page, url, t)
      [] cls = "BoonthavornExtractor" ->
            BoonthavornExtractFromHtml(base, page, url, t)
      [] cls = "MegaHomeExtractor" -> MegaHomeExtractFromHtml(base, page, url, t)

-----------------------------------------------------------------------------
(* The state before any call, and the clock                                *)

\* The clock stops at MaxClock.
MaxClock == 2

Idle ==
    /\ now = 0
    /\ rec = None /\ prev = None
    /\ text_in = None /\ max_length = 0 /\ text_out = None
    /\ sku_in = None /\ sku_out = None
    /\ extractor = None /\ call = None /\ result = None
    /\ invoked = None /\ outcome = None /\ earlier = <<>>
    /\ wrapper = None /\ task = <<>> /\ semaphore = None /\ batch = None

\* Time passes between two calls.
Tick ==
    /\ now < MaxClock
    /\ now' = now + 1
    /\ UNCHANGED <<wrapper, task, semaphore, batch, earlier, invoked, outcome, rec, prev, text_in, max_length, text_out, sku_in, sku_out,
                   extractor, call, result>>

-----------------------------------------------------------------------------
(* Constructing records                                                    *)

\* ProductData(**a): rec is None until the first construction
Construct(a) ==
    /\ rec' = Some([args |-> a, data |-> ProductData(a, now)])
    /\ prev' = rec
    /\ UNCHANGED <<wrapper, task, semaphore, batch, earlier, invoked, outcome, now, text_in, max_length, text_out, sku_in, sku_out,
                   extractor, call, result>>

\* Prices in mills: absent, zero, with a third decimal, round.
PriceInputs ==
    {None, Some(0), Some(9996), Some(10004), Some(80000), Some(100000)}

\* Constructor arguments that vary the prices and the discount fields
DiscountArgs ==
    {[Defaults EXCEPT !.current_price = c, !.original_price = o,
                      !.has_discount = h, !.discount_amount = da,
                      !.discount_percent = dp] :
        c \in PriceInputs, o \in PriceInputs, h \in {None, Some(TRUE)},
        da \in {None, Some(50000)}, dp \in {None, Some(1234)}}

UrlA == <<"h","t","t","p",":","/","/","a",".","c","o","/","p","/","1">>
UrlB == <<"h","t","t","p",":","/","/","b",".","c","o","/","p","/","2">>

\* Constructor arguments that vary the identity fields and some others
KeyArgs ==
    {[Defaults EXCEPT !.url = Some(u), !.name = Some(n), !.brand = b,
                      !.sku = k, !.current_price = c] :
        u \in {UrlA, UrlB}, n \in {<<"T","a","n","k">>, <<"T","a","p">>},
        b \in {None, Some(<<>>), Some(<<"A","c","e">>)},
        k \in {None, Some(<<"W","1">>)}, c \in {None, Some(80000)}}

\* One record is constructed from any prices and discount values.
DiscountNext == rec = None /\ \E a \in DiscountArgs : Construct(a)

SpecDiscount == Idle /\ [][DiscountNext]_vars

\* Two records are constructed, at any two times.
KeyNext ==
    \/ prev = None /\ \E a \in KeyArgs : Construct(a)
    \/ Tick

SpecKey == Idle /\ [][KeyNext]_vars


-----------------------------------------------------------------------------
(* Claims about constructed records                                        *)

\* A price of the record that was constructed last is missing.
PriceMissing ==
    IsNone(Val(rec).args.current_price) \/ IsNone(Val(rec).args.original_price)

\* C1: after construction, whatever prices and discount values were passed
\* in, discount_amount and discount_percent are numbers (never None),
\* has_discount is a boolean equal to (discount_amount > 0), and with a price
\* missing the three are 0.0, 0.0 and False.
C1_DiscountNeverNull ==
    rec # None =>
        LET d == Val(rec).data
        IN  /\ IsSome(d.discount_amount) /\ Val(d.discount_amount) \in Int
            /\ IsSome(d.discount_percent) /\ Val(d.discount_percent) \in Int
            /\ d.has_discount \in BOOLEAN
            /\ d.has_discount = (Val(d.discount_amount) > 0)
            /\ PriceMissing =>
                  /\ d.discount_amount = Some(0)
                  /\ d.discount_percent = Some(0)
                  /\ d.has_discount = FALSE

\* C1's case: a record built with a price missing although a discount of 50.00
\* and has_discount = True were passed to the constructor.
C1_Witness ==
    /\ rec # None
    /\ PriceMissing
    /\ Val(rec).args.discount_amount = Some(50000)
    /\ Val(rec).args.has_discount = Some(TRUE)
    /\ Val(rec).data.discount_amount = Some(0)

\* C2: with both stored prices present, original_price > 0 and
\* original_price > current_price, discount_amount is their difference and
\* discount_percent is discount_amount / original_price * 100; in every other
\* case the discount fields are 0 and has_discount is False; so neither field
\* is negative and discount_percent is at most 100.
C2_DiscountFromStoredPrices ==
    rec # None =>
        LET d == Val(rec).data
            cur == d.current_price
            orig == d.original_price
            amount == Val(d.discount_amount)
            percent == Val(d.discount_percent)
        IN  /\ IF IsSome(cur) /\ IsSome(orig) /\ Val(orig) > 0
                  /\ Val(orig) > Val(cur)
               THEN /\ amount = Val(orig) - Val(cur)
                    /\ percent = RoundDiv(amount * 10000, Val(orig))
                    /\ d.has_discount
               ELSE /\ amount = 0
                    /\ percent = 0
                    /\ ~d.has_discount
            /\ amount >= 0
            /\ percent >= 0
            /\ percent <= 10000

\* The identity a key is derived from: url, name, and brand and sku with the
\* empty string for a missing one.
Identity(a) == <<a.url, a.name, OrEmpty(a.brand), OrEmpty(a.sku)>>

\* The records constructed so far.
Built == {r \in {rec, prev} : r # None}

\* C4: two constructions with equal url, name, brand and sku (a missing brand
\* or sku counting as the empty string) and no product_key supplied yield the
\* same 16-character key, whatever the other fields and the time of the call.
C4_KeyDependsOnIdentityOnly ==
    \A r1 \in Built, r2 \in Built :
        /\ Len(Val(Val(r1).data.product_key)) = 16
        /\ Identity(Val(r1).args) = Identity(Val(r2).args)
              => Val(r1).data.product_key = Val(r2).data.product_key

\* C4's case: two records of one identity, built at different times with
\* different prices, one with brand None and the other with brand "".
C4_Witness ==
    /\ rec # None /\ prev # None
    /\ Identity(Val(rec).args) = Identity(Val(prev).args)
    /\ Val(rec).data.scraped_at # Val(prev).data.scraped_at
    /\ Val(rec).args.current_price # Val(prev).args.current_price
    /\ Val(rec).args.brand = None /\ Val(prev).args.brand = Some(<<>>)
    /\ Val(rec).data.product_key = Val(prev).data.product_key


-----------------------------------------------------------------------------
(* Calls of _sanitize_text_field                                           *)

\* The pieces the texts of the model are made of: a letter, a domain suffix,
\* white space, punctuation the function removes, punctuation it rejects,
\* and the openings of an attribute and of two kinds of URL.
Fragments ==
    {<<"a">>, <<".","c","o">>, <<" ">>, <<":">>, <<"=">>, <<Quote>>,
     <<"{">>, <<"}">>, <<"w","w","w",".">>, HttpPrefix,
     <<"c","l","a","s","s","=","\"">>}

\* A text is made of at most MaxFragments pieces.
MaxFragments == 3

RECURSIVE TextsOf(_)
TextsOf(n) ==
    IF n = 0 THEN {<<>>}
    ELSE LET shorter == TextsOf(n - 1)
         IN  shorter \cup {t \o f : t \in shorter, f \in Fragments}

\* The values of max_length: one that short texts exceed, and the one the
\* callers pass for sku, volume and color
MaxLengths == {3, 50}

\* A call with any text and any of the lengths
SanitizeInit ==
    /\ now = 0 /\ rec = None /\ prev = None /\ text_out = None
    /\ sku_in = None /\ sku_out = None
    /\ extractor = None /\ call = None /\ result = None
    /\ invoked = None /\ outcome = None /\ earlier = <<>>
    /\ wrapper = None /\ task = <<>> /\ semaphore = None /\ batch = None
    /\ text_in \in {Some(t) : t \in TextsOf(MaxFragments)}
    /\ max_length \in MaxLengths

\* text_out = extractor._sanitize_text_field(text_in, max_length)
CallSanitizeText ==
    /\ text_in # None /\ text_out = None
    /\ text_out' = Some(SanitizeTextField(Val(text_in), max_length))
    /\ UNCHANGED <<wrapper, task, semaphore, batch, earlier, invoked, outcome, now, rec, prev, text_in, max_length, sku_in, sku_out,
                   extractor, call, result>>

SpecSanitize == SanitizeInit /\ [][CallSanitizeText]_vars


\* The cleaned text of the call, before the final validation
Cleaned == CleanStages(Val(text_in))

\* The characters and prefixes a sanitized field must not have
ForbiddenChars == {"{", "}", "[", "]", "\"", "'", "\\", "<", ">"}
ForbiddenPrefixes ==
    {<<"h","t","t","p">>, <<"w","w","w">>, <<"d","a","t","a",":">>,
     <<"c","l","a","s","s","=">>, <<"s","t","y","l","e","=">>}

\* What a sanitized free-text field of at most n characters looks like
LooksSanitized(t, n) ==
    /\ Len(t) >= 2 /\ Len(t) <= n
    /\ \A i \in 1..Len(t) : t[i] \notin ForbiddenChars
    /\ \A p \in ForbiddenPrefixes : ~StartsWith(Lower(t), p)

\* C6: for every text and every max_length, _sanitize_text_field returns
\* None or a string of 2 to max_length characters that has none of
\* { } [ ] " ' \ < > and does not begin, in any case, with http, www, data:,
\* class= or style=; a result longer than max_length is rejected, not cut.
C6_SanitizedOrNull ==
    text_out # None =>
        LET o == Val(text_out)
        IN  /\ IsSome(o) => LooksSanitized(Val(o), max_length)
            /\ IsSome(o) => Val(o) = Cleaned
            /\ Len(Cleaned) > max_length => o = None

\* C6's case: a text that cleans to a valid but over-long string was
\* rejected.
C6_Witness ==
    /\ text_out = Some(None)
    /\ Len(Cleaned) > max_length
    /\ ValidCleanedAnyLength(Cleaned, max_length)

\* The fragments a sanitized string must not carry: an attribute, a URL, a
\* www token, a bare domain, a braces block, a brackets block
Contaminants == {"class", "style", "id", "http", "www", "domain", "braces", "brackets"}

HasMatch(p, t) ==
    \E i \in 1..Len(t) : MatchLen(p, IF IgnoreCase(p) THEN Lower(t) ELSE t, i) > 0

\* C7: a result of _sanitize_text_field that is not None contains no
\* class/style/id attribute, no http(s):// token, no www. token, no bare
\* domain.tld token and no {...} or [...] block, also when a later stage joins
\* the text around a removed fragment.
C7_NoContaminantLeft ==
    (text_out # None /\ IsSome(Val(text_out))) =>
        \A p \in Contaminants : ~HasMatch(p, Val(Val(text_out)))

-----------------------------------------------------------------------------
(* Calls of _is_valid_sku                                                  *)

\* The pieces the SKU candidates are made of
SkuFragments ==
    {<<"A">>, <<"7">>, <<"-">>, <<"_">>, <<"/">>, <<"\n">>,
     <<".","c","o","m">>, <<"h","t","t","p">>, <<"W","w","w">>,
     <<"2","0","2","4","-","0","1","-","0","1">>,
     <<"B","B","B","B","B","B","B","B","B","B","B","B","B","B","B","B","B",
       "B","B","B","B","B","B","B","B">>}

\* A SKU candidate is made of at most MaxSkuFragments pieces.
MaxSkuFragments == 3

RECURSIVE SkusOf(_)
SkusOf(n) ==
    IF n = 0 THEN {<<>>}
    ELSE LET shorter == SkusOf(n - 1)
         IN  shorter \cup {t \o f : t \in shorter, f \in SkuFragments}

\* A call with any candidate
SkuInit ==
    /\ now = 0 /\ rec = None /\ prev = None
    /\ text_in = None /\ max_length = 0 /\ text_out = None
    /\ sku_out = None
    /\ extractor = None /\ call = None /\ result = None
    /\ invoked = None /\ outcome = None /\ earlier = <<>>
    /\ wrapper = None /\ task = <<>> /\ semaphore = None /\ batch = None
    /\ sku_in \in {Some(t) : t \in SkusOf(MaxSkuFragments)}

\* sku_out = extractor._is_valid_sku(sku_in)
CallIsValidSku ==
    /\ sku_in # None /\ sku_out = None
    /\ sku_out' = Some(IsValidSku(Val(sku_in)))
    /\ UNCHANGED <<wrapper, task, semaphore, batch, earlier, invoked, outcome, now, rec, prev, text_in, max_length, text_out, sku_in,
                   extractor, call, result>>

SpecSku == SkuInit /\ [][CallIsValidSku]_vars

\* The validity of a SKU as the specification states it
StatedValidSku(s) ==
    /\ Len(s) >= 2 /\ Len(s) <= 50
    /\ ~StartsWith(Lower(s), <<"h","t","t","p">>)
    /\ ~StartsWith(Lower(s), <<"w","w","w">>)
    /\ \A d \in SkuDomainMarkers \cup SkuPathMarkers : ~Contains(s, d)
    /\ \A i \in 1..Len(s) : s[i] \notin {"/", "\\"}
    /\ ~(/\ Len(s) = 10
         /\ \A k \in 1..10 : s[k] \in DateShape[k]
         /\ s[5] = s[8])
    /\ \A i \in 1..Len(s) : s[i] \in SkuChars

\* C9: is_valid_sku(s) is true exactly when s has 2 to 50 characters, does
\* not start with http, https or www, contains no domain suffix, no path
\* marker, no / or \, is not a bare date, and consists of [A-Za-z0-9_-] only.
C9_ValidExactlyWhenStated ==
    sku_out # None => Val(sku_out) = StatedValidSku(Val(sku_in))

-----------------------------------------------------------------------------
(* Extractors and their calls                                              *)

\* Texts of pages and URLs
TextSaw == <<"S","a","w"," ","1","2">>
TextTablet == <<"7","\""," ","T","V"," ","x">>
TextDrill == <<"M","e","g","a","h","o","m","e"," ","D","r","i","l","l">>
TextLamp == <<"L","a","m","p"," ","5">>
TextAB12 == <<"A","B","-","1","2">>
TextDomain == <<"a",".","c","o","m">>

UrlThai ==
    <<"h","t","t","p",":","/","/","t","/","p","r","o","d","u","c","t","/",
      "A","B","1","2","/","s","k","u","/","1","2","3","4","5","6">>
UrlBoon == <<"h","t","t","p",":","/","/","b","/","l","a","m","p","-","7","7">>
UrlMega == <<"h","t","t","p",":","/","/","m","/","p","/","1","2","3","?","x">>
UrlBad ==
    <<"h","t","t","p",":","/","/","b","/","p","r","o","d","u","c","t","/",
      "a",".","c","o","m">>

Urls == {None, Some(UrlThai), Some(UrlBoon), Some(UrlMega), Some(UrlBad)}

NoQuick == [sku |-> None, brand |-> None]

\* A page without content
EmptyPage ==
    [html |-> FALSE, h1 |-> <<>>, title |-> <<>>, sku_caps |-> <<>>,
     img_caps |-> <<>>,
     all_prices |-> <<>>, orig_prices |-> <<>>, json_ld |-> None,
     quick |-> NoQuick, old_price |-> None]

\* Pages with a heading, and pages with a title that is a retailer's name
TitledPages ==
    {[EmptyPage EXCEPT !.html = TRUE, !.h1 = h] :
        h \in {<<>>, <<TextSaw>>, <<TextTablet>>, <<TextDrill>>}}
    \cup
    {[EmptyPage EXCEPT !.html = TRUE, !.h1 = h,
                       !.title = <<<<"m","e","g","a","h","o","m","e">>>>] :
        h \in {<<>>, <<TextDrill>>}}

\* Pages with a heading and SKU markup, and pages with a heading, a SKU and
\* price markup
MarkupPages ==
    {[EmptyPage EXCEPT !.html = TRUE, !.h1 = <<TextSaw>>, !.sku_caps = sk] :
        sk \in {<<TextAB12>>, <<<<"A"," ","B">>>>,
                <<TextDomain, <<"Z","Z","9">>>>}}
    \cup
    {[EmptyPage EXCEPT !.html = TRUE, !.h1 = <<TextSaw>>,
                       !.sku_caps = <<TextAB12>>,
                       !.all_prices = pr[1], !.orig_prices = pr[2]] :
        pr \in {<<<<80000>>, <<>>>>, <<<<80000, 100000>>, <<>>>>,
                <<<<100000>>, <<80000>>>>}}

\* JSON-LD Product blocks: [name, brand, sku, price]
JsonLdBlocks ==
    {[name |-> Some(TextLamp), brand |-> Some(<<"A","c","m","e">>),
      sku |-> Some(<<"L","D","-","7","7">>),
      price |-> Some([num |-> TRUE, val |-> 80000]), image |-> <<>>],
     [name |-> Some(TextTablet), brand |-> None, sku |-> None, price |-> None,
      image |-> <<>>],
     [name |-> None, brand |-> None, sku |-> Some(TextDomain),
      price |-> Some([num |-> FALSE, val |-> 0]), image |-> <<>>]}

\* The quick-info labels and the old price of a page
Details ==
    {[quick |-> NoQuick, old_price |-> None],
     [quick |-> [sku |-> Some(<<"Q","K","-","1">>),
                 brand |-> Some(<<"B","o","s","c","h">>)],
      old_price |-> Some(100000)]}

\* Pages with a JSON-LD block, quick-info labels and an old price
StructuredPages ==
    {[EmptyPage EXCEPT !.html = TRUE, !.h1 = h, !.json_ld = ld,
                       !.quick = d.quick, !.old_price = d.old_price] :
        h \in {<<>>, <<TextSaw>>},
        ld \in {None} \cup {Some(b) : b \in JsonLdBlocks},
        d \in Details}

\* Image references
ImageAt(c) == <<"h","t","t","p",":","/","/","c","/">> \o <<c>>
ImagePath == <<"/","i",".","p","n","g">>
ImageData == <<"d","a","t","a",":","x">>

\* Pages with image markup: a repeated image, a relative one and a data:
\* URL; more images than MaxImages; and JSON-LD images next to the markup
ImagePages ==
    {[EmptyPage EXCEPT !.html = TRUE, !.h1 = <<TextSaw>>,
                       !.img_caps = <<ImageAt("1"), ImagePath, ImageData,
                                      ImageAt("1"), ImageAt("2")>>],
     [EmptyPage EXCEPT !.html = TRUE, !.h1 = <<TextSaw>>,
                       !.img_caps = [k \in 1..(MaxImages + 1) |->
                                        ImageAt(LowerLetters[k])]],
     [EmptyPage EXCEPT !.html = TRUE, !.h1 = <<TextSaw>>,
                       !.img_caps = <<ImageAt("1")>>,
                       !.json_ld =
                           Some([name |-> Some(TextLamp), brand |-> None,
                                 sku |-> None, price |-> None,
                                 image |-> <<ImageData, ImageAt("1"),
                                             ImageAt("2"), ImageAt("2")>>])]}

Pages ==
    {EmptyPage} \cup TitledPages \cup MarkupPages \cup StructuredPages
        \cup ImagePages

\* cls(base): the constructor of an extractor
NewExtractor(cls, base) ==
    /\ extractor = None
    /\ extractor' = Some([cls |-> cls, base_url |-> base])
    /\ UNCHANGED <<wrapper, task, semaphore, batch, earlier, invoked, outcome, now, rec, prev, text_in, max_length, text_out, sku_in,
                   sku_out, call, result>>

\* extractor.extract_from_html(page, url), one call on each instance
CallExtractFromHtml(page, url) ==
    /\ IsSome(extractor) /\ IsNone(result)
    /\ \E r \in {ExtractFromHtml(Val(extractor).cls, Val(extractor).base_url,
                                  page, url, now)} :
          /\ extractor' = Some([Val(extractor) EXCEPT !.base_url = r.base_url])
          /\ result' = Some(r.out)
    /\ call' = Some([page |-> page, url |-> url])
    /\ UNCHANGED <<wrapper, task, semaphore, batch, earlier, invoked, outcome, now, rec, prev, text_in, max_length, text_out, sku_in,
                   sku_out>>

ExtractNext ==
    \/ \E cls \in Classes, base \in {None, Some(UrlThai)} : NewExtractor(cls, base)
    \/ \E page \in Pages, url \in Urls : CallExtractFromHtml(page, url)

SpecExtract == Idle /\ [][ExtractNext]_vars

\* The record the call returned
Returned == IsSome(result) /\ Val(result).kind = "record"
Product == Val(result).data

\* C3: in every record extract_from_html returns, whatever the extractor,
\* the discount fields agree with the prices the record carries:
\* has_discount is true exactly when both prices are present, original_price
\* is above 0 and original_price - current_price is above 0, and then
\* discount_amount is original_price - current_price.
C3_DiscountConsistentWithPrices ==
    Returned =>
        LET c == Product.current_price
            o == Product.original_price
            discounted == /\ IsSome(c) /\ IsSome(o)
                          /\ Val(o) > 0 /\ Val(o) - Val(c) > 0
        IN  /\ Product.has_discount = discounted
            /\ discounted => Product.discount_amount = Some(Val(o) - Val(c))

\* C5: in every record extract_from_html returns, product_key is the digest
\* of the url, name, brand and sku that the record carries.
C5_KeyOfFinalIdentity ==
    Returned =>
        Product.product_key =
            Some(Md5Hex16(KeyContent(Product.url, Product.name,
                                     Product.brand, Product.sku)))

\* C8: in every record extract_from_html returns, every populated free-text
\* field has none of { } [ ] " ' \ < >, does not begin with http, www,
\* data:, class= or style=, and is not longer than its field allows.  The
\* pages of the model populate name, brand and sku.
C8_TextFieldsSanitized ==
    Returned =>
        /\ Truthy(Product.name) =>
              /\ \A i \in 1..Len(Val(Product.name)) :
                    Val(Product.name)[i] \notin ForbiddenChars
              /\ \A p \in ForbiddenPrefixes :
                    ~StartsWith(Lower(Val(Product.name)), p)
        /\ Truthy(Product.brand) => LooksSanitized(Val(Product.brand), 100)
        /\ Truthy(Product.sku) => LooksSanitized(Val(Product.sku), SkuTextLen)

\* C10: in every record extract_from_html returns, whatever the extractor
\* and whatever the source of the SKU (SKU markup, JSON-LD, quick-info label
\* or URL, of this call or left in base_url), sku is None or a string that
\* _is_valid_sku accepts.
C10_SkuNullOrValid ==
    Returned => (IsNone(Product.sku) \/ IsValidSku(Val(Product.sku)))

\* A ThaiWatsadu record whose SKU was taken from the page and then replaced
\* by the SKU of the URL
C10_Witness ==
    /\ Returned
    /\ Val(extractor).cls = "ThaiWatsaduExtractor"
    /\ Val(call).page.sku_caps = <<TextAB12>>
    /\ Val(call).url = Some(UrlThai)
    /\ Product.sku = Some(<<"1","2","3","4","5","6">>)

\* No image occurs twice in imgs
NoDuplicates(imgs) ==
    \A i, j \in 1..Len(imgs) : imgs[i] = imgs[j] => i = j

\* C11: in every record extract_from_html returns, whatever the extractor,
\* images has at most 10 entries, no entry twice, and every entry starts
\* with http:// or https://, also when the images come from a JSON-LD image
\* value.
C11_ImagesCleanAndCapped ==
    Returned =>
        /\ Len(Product.images) <= 10
        /\ NoDuplicates(Product.images)
        /\ \A i \in 1..Len(Product.images) :
              \/ StartsWith(Product.images[i], HttpPrefix)
              \/ StartsWith(Product.images[i], HttpsPrefix)

-----------------------------------------------------------------------------
(* ProductExtractor.extract_from_json_ld over the ld+json script blocks of  *)
(* a page.  A block is what json.loads makes of its text, or the failure   *)
(* of json.loads.  A JSON value is described by its json kind; an object   *)
(* carries the members the parser reads:                                   *)
(*   type      the "@type" member ("" when absent)                         *)
(*   graph     the "@graph" member: None when absent, else its members     *)
(*   name      the "name" member                                           *)
(*   category  "absent", "text", "list" or "empty_list"                   *)
(*   offers    [json |-> "absent"], [json |-> "text"],                    *)
(*             [json |-> "object", price, spec]  (spec: the json kind of   *)
(*                  "priceSpecification"),                                 *)
(*             [json |-> "array", items]  (each item an offer or a text)   *)

JsonInvalid == [json |-> "invalid"]
JsonText == [json |-> "text"]
JsonArray == [json |-> "array"]
NoOffers == [json |-> "absent"]
Offer(price, spec) == [json |-> "object", price |-> price, spec |-> spec]
OfferList(items) == [json |-> "array", items |-> items]
JsonObject(type, graph, name, category, offers) ==
    [json |-> "object", type |-> type, graph |-> graph, name |-> name,
     category |-> category, offers |-> offers]

ProductTypes == {"Product", "ProductModel"}

\* The dictionary extract_from_json_ld builds: the keys the claims read
EmptyJsonLd == [name |-> None, current_price |-> None]
Parsed(d) == [kind |-> "dict", data |-> d]
RaisedError(e) == [kind |-> "raised", error |-> e]

\* offers.get('priceSpecification', {}).get('highPrice')
OfferRaises(offer) ==
    \/ offer.json # "object"
    \/ offer.spec \notin {"absent", "object"}

\* _parse_json_ld_product: the exception it raises, if any
ParseRaises(data) ==
    IF data.category = "empty_list" THEN Some("IndexError")
    ELSE IF data.offers.json = "object" /\ OfferRaises(data.offers)
         THEN Some("AttributeError")
    ELSE IF data.offers.json = "array" /\ data.offers.items # <<>>
            /\ OfferRaises(data.offers.items[1])
         THEN Some("AttributeError")
    ELSE None

\* the price _parse_json_ld_product reads, when it reads one
OfferPrice(offers) ==
    IF offers.json = "object" THEN Some(offers.price)
    ELSE IF offers.json = "array" /\ offers.items # <<>>
         THEN Some(offers.items[1].price)
    ELSE None

\* json_ld_data.update(self._parse_json_ld_product(data)): 'name' is always
\* among the keys of a parsed block, 'current_price' only with offers
ParseJsonLdProduct(d, data) ==
    [name |-> data.name,
     current_price |-> IF IsSome(OfferPrice(data.offers))
                       THEN Val(OfferPrice(data.offers))
                       ELSE d.current_price]

UpdateWith(acc, data) ==
    IF acc.kind = "raised" THEN acc
    ELSE IF IsSome(ParseRaises(data)) THEN RaisedError(Val(ParseRaises(data)))
    ELSE Parsed(ParseJsonLdProduct(acc.data, data))

\* for item in data['@graph']: if item.get('@type') in [...]: update
RECURSIVE GraphItems(_, _, _)
GraphItems(acc, items, i) ==
    IF i > Len(items) \/ acc.kind = "raised" THEN acc
    ELSE IF items[i].json # "object"
         THEN RaisedError("AttributeError")
    ELSE IF items[i].type \in ProductTypes
         THEN GraphItems(UpdateWith(acc, items[i]), items, i + 1)
    ELSE GraphItems(acc, items, i + 1)

\* one iteration of the loop over the script blocks
JsonLdBlock(acc, block) ==
    IF acc.kind = "raised" THEN acc
    ELSE IF block.json # "object" THEN acc
    ELSE IF block.type \in ProductTypes THEN UpdateWith(acc, block)
    ELSE IF IsSome(block.graph) THEN GraphItems(acc, Val(block.graph), 1)
    ELSE acc

RECURSIVE JsonLdBlocksFrom(_, _, _)
JsonLdBlocksFrom(acc, blocks, i) ==
    IF i > Len(blocks) THEN acc
    ELSE JsonLdBlocksFrom(JsonLdBlock(acc, blocks[i]), blocks, i + 1)

ExtractFromJsonLd(blocks) == JsonLdBlocksFrom(Parsed(EmptyJsonLd), blocks, 1)

(* What the documentation of the function says it returns: the merge of    *)
(* the Product blocks of the expected shapes, everything else passed over  *)
ExpectedShape(v) ==
    /\ v.json = "object"
    /\ v.type \in ProductTypes
    /\ IsNone(ParseRaises(v))

RECURSIVE MergeExpected(_, _, _)
MergeExpected(d, values, i) ==
    IF i > Len(values) THEN d
    ELSE IF ExpectedShape(values[i])
         THEN MergeExpected(ParseJsonLdProduct(d, values[i]), values, i + 1)
    ELSE IF values[i].json = "object" /\ values[i].type \notin ProductTypes
            /\ IsSome(values[i].graph)
         THEN MergeExpected(MergeExpected(d, Val(values[i].graph), 1),
                            values, i + 1)
    ELSE MergeExpected(d, values, i + 1)

PlainProduct(type, name, offers) ==
    JsonObject(type, None, Some(name), "absent", offers)

BlockShapes ==
    {JsonInvalid, JsonText, JsonArray,
     PlainProduct("Product", "A", Offer(Some(1), "absent")),
     PlainProduct("ProductModel", "B", NoOffers),
     PlainProduct("Product", "C", OfferList(<<Offer(Some(2), "object")>>)),
     PlainProduct("Product", "D", [json |-> "text"]),
     PlainProduct("Thing", "E", Offer(Some(3), "absent")),
     JsonObject("", Some(<<PlainProduct("Product", "F", NoOffers)>>),
                None, "absent", NoOffers),
     JsonObject("", Some(<<JsonText, PlainProduct("Product", "G", NoOffers)>>),
                None, "absent", NoOffers),
     JsonObject("Product", None, Some("H"), "empty_list", NoOffers),
     JsonObject("Product", None, Some("I"), "list", NoOffers),
     PlainProduct("Product", "J", Offer(Some(4), "text")),
     PlainProduct("Product", "K", OfferList(<<JsonText>>)),
     PlainProduct("Product", "L", OfferList(<<>>))}

MaxBlocks == 2

BlockLists ==
    UNION {[1..n -> BlockShapes] : n \in 0..MaxBlocks}

CallExtractFromJsonLd(blocks) ==
    /\ invoked = None
    /\ invoked' = Some([op |-> "extract_from_json_ld", arg |-> blocks])
    /\ outcome' = Some(ExtractFromJsonLd(blocks))
    /\ UNCHANGED <<wrapper, task, semaphore, batch, earlier, now, rec, prev, text_in, max_length, text_out, sku_in,
                   sku_out, extractor, call, result>>

JsonLdNext == \E blocks \in BlockLists : CallExtractFromJsonLd(blocks)

SpecJsonLd == Idle /\ [][JsonLdNext]_vars

JsonLdCalled ==
    IsSome(invoked) /\ Val(invoked).op = "extract_from_json_ld"

\* C12: extract_from_json_ld never raises: whatever the script blocks hold
\* (invalid JSON, values that are not objects, objects that are not
\* products, @graph members that are not objects, offers, category or
\* priceSpecification of an unexpected shape), it returns a dictionary, and
\* that dictionary is the merge of the blocks of the expected shape alone.
C12_JsonLdNeverRaises ==
    JsonLdCalled =>
        /\ Val(outcome).kind = "dict"
        /\ Val(outcome).data = MergeExpected(EmptyJsonLd, Val(invoked).arg, 1)

\* The bespoke logic of the specialised extractor failed on the page of the call
FailedInternally ==
    /\ IsSome(call)
    /\ Val(extractor).cls = "BoonthavornExtractor"
    /\ BoonthavornRaises(Val(call).page)

\* C13: extract_from_html of a specialised extractor does not propagate an
\* exception of its own logic (a JSON-LD price that is not a number): the
\* caller receives what the generic extract_from_html returns for the page.
C13_InternalFailureFallsBack ==
    IsSome(result) =>
        /\ Val(result).kind # "raised"
        /\ FailedInternally =>
              Val(result) = BaseExtractFromHtml(Val(extractor).base_url,
                                                Val(call).page, Val(call).url,
                                                now).out

\* C14: for an empty page every extractor returns the empty result (Python's
\* None) and does not raise; none returns a record for empty content.
C14_EmptyContentEmptyResult ==
    IsSome(result) /\ ~Val(call).page.html => Val(result).kind = "none"

\* Neither the url argument nor a base URL was available to the call
NoUrlAtAll ==
    /\ IsSome(call)
    /\ ~Truthy(Val(call).url)
    /\ ~Truthy(Val(extractor).base_url)

\* C15: the construction of the record at the end of the generic
\* extract_from_html does not raise when optional fields are missing, and
\* when there is no URL at all the caller gets an explicit error: neither
\* the silent None nor a record whose url is empty.
C15_MissingUrlIsAnError ==
    IsSome(result) /\ Val(extractor).cls = "ProductExtractor"
                   /\ Val(call).page.html =>
        /\ Val(result).kind # "raised"
        /\ NoUrlAtAll =>
              /\ Val(result).kind # "none"
              /\ ~(Val(result).kind = "record" /\ ~Truthy(Product.url))

-----------------------------------------------------------------------------
(* Several extract_from_html calls on one extractor instance               *)

MaxCalls == 3

RepeatPages == {p \in TitledPages : p.h1 = <<TextSaw>>}
                   \cup {p \in ImagePages : Len(p.img_caps) = 5}
RepeatUrls == {None, Some(UrlThai)}

\* a further call on the instance; the one before it is kept in `earlier`
CallAgain(page, url) ==
    /\ IsSome(result)
    /\ Len(earlier) < MaxCalls - 1
    /\ earlier' = Append(earlier, [page |-> Val(call).page,
                                   url |-> Val(call).url,
                                   out |-> Val(result)])
    /\ \E r \in {ExtractFromHtml(Val(extractor).cls, Val(extractor).base_url,
                                  page, url, now)} :
          /\ extractor' = Some([Val(extractor) EXCEPT !.base_url = r.base_url])
          /\ result' = Some(r.out)
    /\ call' = Some([page |-> page, url |-> url])
    /\ UNCHANGED <<wrapper, task, semaphore, batch, invoked, outcome, now, rec, prev, text_in, max_length,
                   text_out, sku_in, sku_out>>

RepeatNext ==
    \/ Tick
    \/ \E cls \in Classes : NewExtractor(cls, None)
    \/ \E page \in RepeatPages, url \in RepeatUrls :
          CallExtractFromHtml(page, url)
    \/ \E page \in RepeatPages, url \in RepeatUrls : CallAgain(page, url)

SpecRepeat == Idle /\ [][RepeatNext]_vars

\* two results equal in every field except scraped_at
SameButScrapedAt(a, b) ==
    /\ a.kind = b.kind
    /\ [a.data EXCEPT !.scraped_at = b.data.scraped_at] = b.data

\* C16: whatever calls were made on the instance before, two calls of
\* extract_from_html with equal (html, url) return results that are equal in
\* every field except scraped_at.
C16_SameArgumentsSameResult ==
    IsSome(result) =>
        \A i \in 1..Len(earlier) :
            earlier[i].page = Val(call).page /\ earlier[i].url = Val(call).url
                => SameButScrapedAt(earlier[i].out, Val(result))

-----------------------------------------------------------------------------
(* get_extractor(url): the extractor class chosen for a URL                *)

DomainThaiWatsadu == <<"t","h","a","i","w","a","t","s","a","d","u",".","c","o","m">>
DomainHomePro == <<"h","o","m","e","p","r","o",".","c","o",".","t","h">>
DomainBoonthavorn == <<"b","o","o","n","t","h","a","v","o","r","n",".","c","o","m">>
DomainDoHome == <<"d","o","h","o","m","e",".","c","o",".","t","h">>
DomainMegaHome == <<"m","e","g","a","h","o","m","e",".","c","o",".","t","h">>
DomainGlobalHouse == <<"g","l","o","b","a","l","h","o","u","s","e",".","c","o",".","t","h">>

\* the tests of get_extractor, in their order: the domain, the class it
\* selects and the retailer attribute it sets
Registered ==
    <<[domain |-> DomainThaiWatsadu, cls |-> "ThaiWatsaduExtractor", retailer |-> None],
      [domain |-> DomainHomePro, cls |-> "HomeProExtractor", retailer |-> None],
      [domain |-> DomainBoonthavorn, cls |-> "BoonthavornExtractor", retailer |-> None],
      [domain |-> DomainDoHome, cls |-> "ProductExtractor", retailer |-> Some("DoHome")],
      [domain |-> DomainMegaHome, cls |-> "MegaHomeExtractor", retailer |-> None],
      [domain |-> DomainGlobalHouse, cls |-> "ProductExtractor",
       retailer |-> Some("Global House")]>>

SchemeChars == Letters \cup Digits \cup {"+", "-", "."}

\* urlparse(url).netloc: what follows "//" after the optional scheme, up to
\* the first "/", "?" or "#"
AuthorityStart(url) ==
    IF RunLen(url, 1, SchemeChars) > 0
       /\ StartsAt(url, RunLen(url, 1, SchemeChars) + 1, <<":", "/", "/">>)
    THEN RunLen(url, 1, SchemeChars) + 4
    ELSE IF StartsWith(url, <<"/", "/">>) THEN 3
    ELSE 0

Netloc(url) ==
    IF AuthorityStart(url) = 0 THEN <<>>
    ELSE SubSeq(url, AuthorityStart(url),
                AuthorityStart(url) - 1
                    + RunLen(url, AuthorityStart(url),
                             Range(CharTable) \ {"/", "?", "#"}))

\* urlsplit raises ValueError("Invalid IPv6 URL") for an unpaired bracket
UrlParseRaises(url) ==
    ("[" \in Range(Netloc(url))) # ("]" \in Range(Netloc(url)))

\* the first test of get_extractor that the domain passes, or 0
RECURSIVE FirstRegistered(_, _)
FirstRegistered(domain, i) ==
    IF i > Len(Registered) THEN 0
    ELSE IF Contains(domain, Registered[i].domain) THEN i
    ELSE FirstRegistered(domain, i + 1)

Chosen(i, url) ==
    IF i = 0
    THEN [kind |-> "extractor", cls |-> "ProductExtractor",
          base_url |-> url, retailer |-> None]
    ELSE [kind |-> "extractor", cls |-> Registered[i].cls,
          base_url |-> url, retailer |-> Registered[i].retailer]

GetExtractor(url) ==
    IF UrlParseRaises(url) THEN RaisedError("ValueError")
    ELSE Chosen(FirstRegistered(Lower(Netloc(url)), 1), url)

(* The host of a URL is on a retailer's registered domain when it is that  *)
(* domain or a subdomain of it                                             *)
EndsWith(s, p) == Len(p) <= Len(s) /\ StartsAt(s, Len(s) - Len(p) + 1, p)

OnDomain(host, domain) ==
    host = domain \/ EndsWith(host, <<".">> \o domain)

StatedClass(url) ==
    IF \E i \in 1..Len(Registered) : OnDomain(Lower(Netloc(url)), Registered[i].domain)
    THEN Registered[CHOOSE i \in 1..Len(Registered) :
                        OnDomain(Lower(Netloc(url)), Registered[i].domain)].cls
    ELSE "ProductExtractor"

HostsOf(d) ==
    {d, <<"w","w","w",".">> \o d, d \o <<".","e","v","i","l",".","e","x","a","m","p","l","e">>, <<"n","o","t">> \o d}

RouteHosts ==
    UNION {HostsOf(Registered[i].domain) : i \in 1..Len(Registered)}
    \cup {<<"s","h","o","p",".","e","x","a","m","p","l","e">>, <<"[","b","a","d">>, <<"W","W","W",".","M","e","g","a","H","o","m","e",".","C","O",".","T","H">>}

RoutePaths == {<<>>, <<"/","p">>, <<"/">> \o DomainThaiWatsadu,
               <<"?","q","=">> \o DomainMegaHome}

RouteUrls ==
    {HttpsPrefix \o h \o p : h \in RouteHosts, p \in RoutePaths}
    \cup {h \o p : h \in HostsOf(DomainHomePro), p \in RoutePaths}

CallGetExtractor(url) ==
    /\ invoked = None
    /\ invoked' = Some([op |-> "get_extractor", arg |-> url])
    /\ outcome' = Some(GetExtractor(url))
    /\ UNCHANGED <<wrapper, task, semaphore, batch, earlier, now, rec, prev, text_in, max_length, text_out,
                   sku_in, sku_out, extractor, call, result>>

RouteNext == \E url \in RouteUrls : CallGetExtractor(url)

SpecRoute == Idle /\ [][RouteNext]_vars

\* C17: get_extractor returns an extractor for every URL, and a specialised
\* one only when the host of the URL is the retailer's domain or a
\* subdomain of it; a URL on any other domain, also one whose host name
\* merely contains a retailer domain, gets the generic ProductExtractor.
C17_SpecialisedOnlyOnOwnDomain ==
    IsSome(invoked) /\ Val(invoked).op = "get_extractor" =>
        /\ Val(outcome).kind = "extractor"
        /\ Val(outcome).cls = StatedClass(Val(invoked).arg)

\* The page of the call carries its product data as one JSON-LD Product
\* block with name, brand, sku and a numeric offers.price, and shows no
\* original price
FullyStructured(page) ==
    /\ page.html
    /\ IsSome(page.json_ld)
    /\ Truthy(Val(page.json_ld).name)
    /\ Truthy(Val(page.json_ld).brand)
    /\ Truthy(Val(page.json_ld).sku)
    /\ IsSome(Val(page.json_ld).price)
    /\ Val(Val(page.json_ld).price).num
    /\ page.orig_prices = <<>>
    /\ IsNone(page.old_price)

\* C18: for such a page the record of every extractor has the name, brand,
\* sku and current_price of the JSON-LD block, whatever the markup of the
\* page shows, and has_discount is false.
C18_StructuredDataFirst ==
    Returned /\ FullyStructured(Val(call).page) =>
        /\ Product.name = Val(call).page.json_ld[1].name
        /\ Product.brand = Val(call).page.json_ld[1].brand
        /\ Product.sku = Val(call).page.json_ld[1].sku
        /\ Product.current_price = Some(Val(call).page.json_ld[1].price[1].val)
        /\ ~Product.has_discount

-----------------------------------------------------------------------------
(* PriceParser.parse_price and PriceParser.extract_prices.  A float is the  *)
(* decimal number it was read from: [n, places] stands for n / 10^places,  *)
(* without trailing zeros in the fraction.                                 *)

\* the members of [฿$,€£¥\s] that occur in the texts modelled
PriceSymbols == {"$", ",", " ", "\n"}

\* re.sub(r'[^0-9.]', '', s)
DigitsAndDots(s) == SelectSeq(s, LAMBDA c : c \in Digits \cup {"."})

\* s.split('.')
RECURSIVE SplitDots(_, _, _)
SplitDots(s, i, part) ==
    IF i > Len(s) THEN <<part>>
    ELSE IF s[i] = "." THEN <<part>> \o SplitDots(s, i + 1, <<>>)
    ELSE SplitDots(s, i + 1, Append(part, s[i]))

\* ''.join(parts)
RECURSIVE JoinParts(_)
JoinParts(parts) ==
    IF parts = <<>> THEN <<>> ELSE parts[1] \o JoinParts(Tail(parts))

\* the first "." kept as the decimal separator instead of the last
KeepFirstDot(parts) ==
    IF Len(parts) > 2
    THEN parts[1] \o <<".">> \o JoinParts(Tail(parts))
    ELSE IF Len(parts) = 2 THEN parts[1] \o <<".">> \o parts[2]
    ELSE parts[1]

\* if len(parts) > 2: ''.join(parts[:-1]) + '.' + parts[-1]
KeepLastDot(parts) ==
    IF Len(parts) > 2
    THEN JoinParts(SubSeq(parts, 1, Len(parts) - 1)) \o <<".">>
             \o parts[Len(parts)]
    ELSE IF Len(parts) = 2 THEN parts[1] \o <<".">> \o parts[2]
    ELSE parts[1]

DigitValue == [c \in Digits |-> CHOOSE k \in 0..9 : DigitChars[k + 1] = c]

\* int(s) of a text of digits, 0 for the empty text
RECURSIVE NatOf(_)
NatOf(s) ==
    IF s = <<>> THEN 0
    ELSE 10 * NatOf(SubSeq(s, 1, Len(s) - 1)) + DigitValue[s[Len(s)]]

RECURSIVE Decimal(_, _)
Decimal(n, places) ==
    IF places > 0 /\ n % 10 = 0 THEN Decimal(n \div 10, places - 1)
    ELSE [n |-> n, places |-> places]

\* the number of characters after the "." of s, 0 if it has none
PlacesOf(s) ==
    IF IndexFrom(s, 1, ".") = 0 THEN 0 ELSE Len(s) - IndexFrom(s, 1, ".")

\* float(s) for a text of digits with at most one ".": ValueError, caught
\* by parse_price, unless there is a digit
ToFloat(s) ==
    IF \A i \in 1..Len(s) : s[i] = "." THEN None
    ELSE Some(Decimal(NatOf(RemoveChars(s, {"."})), PlacesOf(s)))

\* PriceParser.parse_price(price_text)
ParsePrice(price_text) ==
    IF price_text = <<>> THEN None
    ELSE ToFloat(KeepLastDot(SplitDots(
             DigitsAndDots(RemoveChars(Strip(price_text), PriceSymbols)),
             1, <<>>)))

(* The rendering of an amount of cents with a currency sign, commas        *)
(* between the thousands and two decimals                                  *)
RECURSIVE DigitsOf(_)
DigitsOf(n) ==
    IF n < 10 THEN <<DigitChars[n + 1]>>
    ELSE Append(DigitsOf(n \div 10), DigitChars[(n % 10) + 1])

RECURSIVE Grouped(_)
Grouped(ds) ==
    IF Len(ds) <= 3 THEN ds
    ELSE Grouped(SubSeq(ds, 1, Len(ds) - 3)) \o <<",">>
             \o SubSeq(ds, Len(ds) - 2, Len(ds))

FormatCurrency(cents) ==
    <<"$">> \o Grouped(DigitsOf(cents \div 100)) \o <<".">>
        \o <<DigitChars[((cents \div 10) % 10) + 1], DigitChars[(cents % 10) + 1]>>

Amounts == {0, 5, 1999, 129900, 100000050, 123456789}

PriceFragments ==
    {<<"1">>, <<"2","0">>, <<"0">>, <<".">>, <<".","5">>, <<",">>, <<"$">>,
     <<" ">>, <<"x">>, <<"-">>}

MaxPriceFragments == 3

RECURSIVE PriceTextsOf(_)
PriceTextsOf(n) ==
    IF n = 0 THEN {<<>>}
    ELSE {t \o f : t \in PriceTextsOf(n - 1), f \in PriceFragments \cup {<<>>}}

PriceTexts ==
    PriceTextsOf(MaxPriceFragments) \cup {FormatCurrency(c) : c \in Amounts}

CallParsePrice(text) ==
    /\ invoked = None
    /\ invoked' = Some([op |-> "parse_price", arg |-> text])
    /\ outcome' = Some(ParsePrice(text))
    /\ UNCHANGED <<wrapper, task, semaphore, batch, earlier, now, rec, prev, text_in, max_length, text_out,
                   sku_in, sku_out, extractor, call, result>>

ParseNext == \E text \in PriceTexts : CallParsePrice(text)

SpecParse == Idle /\ [][ParseNext]_vars

\* The number the digits of a text spell when its last "." is the decimal
\* separator and every other character is passed over
LastDot(s) == CHOOSE i \in 0..Len(s) :
                  /\ i > 0 => s[i] = "."
                  /\ \A j \in (i + 1)..Len(s) : s[j] # "."
DigitsIn(s) == SelectSeq(s, LAMBDA c : c \in Digits)
StatedPrice(text) ==
    IF DigitsIn(text) = <<>> THEN None
    ELSE Some(Decimal(NatOf(DigitsIn(text)),
                      IF LastDot(text) = 0 THEN 0
                      ELSE Len(DigitsIn(From(text, LastDot(text) + 1)))))

ParsePriceCalled == IsSome(invoked) /\ Val(invoked).op = "parse_price"

\* C19: parse_price returns, for every text, the non-negative number that
\* its digits spell with the last "." as the decimal separator, and None
\* for a text without a digit; for the currency rendering of an amount it
\* returns the amount.
C19_ParsePriceLastDot ==
    ParsePriceCalled =>
        /\ Val(outcome) = StatedPrice(Val(invoked).arg)
        /\ \A c \in Amounts :
              Val(invoked).arg = FormatCurrency(c)
                  => Val(outcome) = Some(Decimal(c, 2))

\* a text with a currency sign and two dots was parsed
C19_Witness ==
    /\ ParsePriceCalled
    /\ "$" \in Range(Val(invoked).arg)
    /\ Len(SplitDots(Val(invoked).arg, 1, <<>>)) > 2
    /\ IsSome(Val(outcome))

-----------------------------------------------------------------------------
(* PriceParser.extract_prices.  Of the alternatives of its patterns, the   *)
(* words price, THB, original and regular are within the characters        *)
(* modelled here.                                                          *)

WordPrice == <<"p","r","i","c","e">>
WordThb == <<"t","h","b">>
WordOriginal == <<"o","r","i","g","i","n","a","l">>
WordRegular == <<"r","e","g","u","l","a","r">>

\* re.IGNORECASE on one character
CaseFold(c) == IF c \in Uppers THEN LowerOf[c] ELSE c

\* the word w, in any case, at position i of s
WordAt(s, i, w) ==
    /\ i + Len(w) - 1 <= Len(s)
    /\ \A k \in 1..Len(w) : CaseFold(s[i + k - 1]) = w[k]

\* the length of one of the words ws at position i, or 0
AnyWordLen(s, i, ws) ==
    IF \E w \in ws : WordAt(s, i, w)
    THEN Len(CHOOSE w \in ws : WordAt(s, i, w))
    ELSE 0

\* \.?\d* at position j
TokenTail(s, j) ==
    IF j <= Len(s) /\ s[j] = "." THEN 1 + RunLen(s, j + 1, Digits)
    ELSE RunLen(s, j, Digits)

\* [\d,]+\.?\d* at position j: the length of the match, or 0
TokenBody(s, j) ==
    IF RunLen(s, j, Digits \cup {","}) = 0 THEN 0
    ELSE RunLen(s, j, Digits \cup {","})
            + TokenTail(s, j + RunLen(s, j, Digits \cup {","}))

\* [฿$]?[\d,]+\.?\d* at position i: the length of the match, or 0
TokenLen(s, i) ==
    IF i <= Len(s) /\ s[i] = "$"
    THEN IF TokenBody(s, i + 1) = 0 THEN 0 ELSE 1 + TokenBody(s, i + 1)
    ELSE TokenBody(s, i)

TokenAt(s, i) == SubSeq(s, i, i + TokenLen(s, i) - 1)

\* (?:words)[:\s]*(token) at position i: where the token starts, or 0
LabelThenToken(s, i, ws) ==
    IF AnyWordLen(s, i, ws) = 0 THEN 0
    ELSE IF TokenLen(s, i + AnyWordLen(s, i, ws)
                          + RunLen(s, i + AnyWordLen(s, i, ws),
                                   {":", " ", "\n"})) = 0 THEN 0
    ELSE i + AnyWordLen(s, i, ws)
           + RunLen(s, i + AnyWordLen(s, i, ws), {":", " ", "\n"})

\* the position after (token)\s* for the token at position i
AfterToken(s, i) == i + TokenLen(s, i) + RunLen(s, i + TokenLen(s, i), {" ", "\n"})

\* (token)\s*(?:THB) at position i
TokenThenUnit(s, i) ==
    TokenLen(s, i) > 0 /\ WordAt(s, AfterToken(s, i), WordThb)

\* (token)\s*(?:THB)\s*(?:regular|original) at position i
TokenUnitThenWord(s, i, ws) ==
    /\ TokenThenUnit(s, i)
    /\ AnyWordLen(s, AfterToken(s, i) + Len(WordThb)
                        + RunLen(s, AfterToken(s, i) + Len(WordThb),
                                 {" ", "\n"}), ws) > 0

\* re.search: the smallest position of a set of positions
First(positions) == CHOOSE i \in positions : \A j \in positions : i <= j

\* group(1) of re.search for the first pattern: None if it does not match
LabelCapture(s, ws) ==
    IF \E i \in 1..Len(s) : LabelThenToken(s, i, ws) > 0
    THEN Some(TokenAt(s, LabelThenToken(s,
                 First({i \in 1..Len(s) : LabelThenToken(s, i, ws) > 0}), ws)))
    ELSE None

\* group(1) of re.search for the second pattern of the current price
UnitCapture(s) ==
    IF \E i \in 1..Len(s) : TokenThenUnit(s, i)
    THEN Some(TokenAt(s, First({i \in 1..Len(s) : TokenThenUnit(s, i)})))
    ELSE None

\* group(1) of re.search for the second pattern of the original price
UnitWordCapture(s, ws) ==
    IF \E i \in 1..Len(s) : TokenUnitThenWord(s, i, ws)
    THEN Some(TokenAt(s, First({i \in 1..Len(s) : TokenUnitThenWord(s, i, ws)})))
    ELSE None

\* the loops over the patterns: the capture of the first that matches
CurrentCapture(text) == Or(LabelCapture(text, {WordPrice}), UnitCapture(text))
OriginalCapture(text) ==
    Or(LabelCapture(text, {WordOriginal, WordRegular}),
       UnitWordCapture(text, {WordOriginal, WordRegular}))

ParseCapture(capture) ==
    IF IsSome(capture) THEN ParsePrice(Val(capture)) ELSE None

\* re.findall(r'([฿$]?[\d,]+\.?\d*)', text)
RECURSIVE Tokens(_, _)
Tokens(s, i) ==
    IF i > Len(s) THEN <<>>
    ELSE IF TokenLen(s, i) > 0
         THEN <<TokenAt(s, i)>> \o Tokens(s, i + TokenLen(s, i))
    ELSE Tokens(s, i + 1)

\* [parse_price(p) for p in all_prices], None left out
RECURSIVE ParsedPrices(_)
ParsedPrices(tokens) ==
    IF tokens = <<>> THEN <<>>
    ELSE IF IsSome(ParsePrice(tokens[1]))
         THEN <<Val(ParsePrice(tokens[1]))>> \o ParsedPrices(Tail(tokens))
    ELSE ParsedPrices(Tail(tokens))

RECURSIVE Pow10(_)
Pow10(k) == IF k = 0 THEN 1 ELSE 10 * Pow10(k - 1)

\* a <= b for two floats
AtMost(a, b) == a.n * Pow10(b.places) <= b.n * Pow10(a.places)

MaxOf(prices) == CHOOSE p \in prices : \A q \in prices : AtMost(q, p)
MinOf(prices) == CHOOSE p \in prices : \A q \in prices : AtMost(p, q)

\* the truth value of an optional float
NonZero(p) == IsSome(p) /\ Val(p).n # 0

\* the exactly-one-price branch of the fallback: original_price is left
\* as it was
OnePrice(prices, current, original) ==
    IF Len(prices) = 1 THEN <<Some(prices[1]), original>>
    ELSE <<current, original>>

\* the fallback of extract_prices over the numbers found in the text
AnyNumbers(prices, current, original) ==
    IF Len(prices) >= 2
    THEN <<Some(MinOf(Range(prices))), Some(MaxOf(Range(prices)))>>
    ELSE OnePrice(prices, current, original)

Labelled(text, current, original) ==
    IF ~NonZero(current) /\ ~NonZero(original)
    THEN AnyNumbers(ParsedPrices(Tokens(text, 1)), current, original)
    ELSE <<current, original>>

\* PriceParser.extract_prices(text): <<current_price, original_price>>
ExtractPricePair(text) ==
    IF text = <<>> THEN <<None, None>>
    ELSE Labelled(text, ParseCapture(CurrentCapture(text)),
                  ParseCapture(OriginalCapture(text)))

LabelFragments ==
    {WordPrice, WordOriginal, <<"T","H","B">>, <<" ">>, <<":">>, <<"5">>,
     <<"1","0">>, <<"0">>, <<".">>, <<",">>}

MaxLabelFragments == 4

RECURSIVE LabelTextsOf(_)
LabelTextsOf(n) ==
    IF n = 0 THEN {<<>>}
    ELSE {t \o f : t \in LabelTextsOf(n - 1), f \in LabelFragments \cup {<<>>}}

CallExtractPrices(text) ==
    /\ invoked = None
    /\ invoked' = Some([op |-> "extract_prices", arg |-> text])
    /\ outcome' = Some(ExtractPricePair(text))
    /\ UNCHANGED <<wrapper, task, semaphore, batch, earlier, now, rec, prev, text_in, max_length, text_out,
                   sku_in, sku_out, extractor, call, result>>

PricesNext ==
    \E text \in LabelTextsOf(MaxLabelFragments) : CallExtractPrices(text)

SpecPrices == Idle /\ [][PricesNext]_vars

\* A label pattern of the current or of the original price matches
LabelMatches(text) ==
    IsSome(CurrentCapture(text)) \/ IsSome(OriginalCapture(text))

\* What the numbers of a text give without labels
StatedFallback(distinct) ==
    IF Cardinality(distinct) >= 2
    THEN <<Some(MinOf(distinct)), Some(MaxOf(distinct))>>
    ELSE IF Cardinality(distinct) = 1
    THEN <<Some(CHOOSE p \in distinct : TRUE), None>>
    ELSE <<None, None>>

\* C20: extract_prices returns what the label patterns give whenever one of
\* them matches; the numbers of the text are used only when neither the
\* current nor the original label matches, and then the largest of at least
\* two distinct prices is the original and the smallest the current, and a
\* single distinct price is the current one with no original.
C20_LabelsThenDistinctNumbers ==
    IsSome(invoked) /\ Val(invoked).op = "extract_prices" =>
        Val(outcome) =
            IF LabelMatches(Val(invoked).arg)
            THEN <<ParseCapture(CurrentCapture(Val(invoked).arg)),
                   ParseCapture(OriginalCapture(Val(invoked).arg))>>
            ELSE StatedFallback(Range(ParsedPrices(Tokens(Val(invoked).arg, 1))))

-----------------------------------------------------------------------------
(* ProductExtractor._sanitize_dimensions_field.  Of the separators [x×]    *)
(* the letter x is within the characters modelled here.                    *)

\* \d+(?:\.\d+)? at position i: the length of the match, or 0
FractionLen(s, j) ==
    IF j <= Len(s) /\ s[j] = "." /\ RunLen(s, j + 1, Digits) > 0
    THEN 1 + RunLen(s, j + 1, Digits) ELSE 0

NumberLen(s, i) ==
    IF RunLen(s, i, Digits) = 0 THEN 0
    ELSE RunLen(s, i, Digits) + FractionLen(s, i + RunLen(s, i, Digits))

\* \s*[x×]\s* at position j: the position after the match, or 0
AfterTimes(s, j) ==
    IF j + RunLen(s, j, Spaces) <= Len(s) /\ s[j + RunLen(s, j, Spaces)] = "x"
    THEN j + RunLen(s, j, Spaces) + 1
            + RunLen(s, j + RunLen(s, j, Spaces) + 1, Spaces)
    ELSE 0

\* \s*[x×]\s*\d+(?:\.\d+)? at position j: the position after the match, or 0
AfterFactor(s, j) ==
    IF j = 0 \/ AfterTimes(s, j) = 0 \/ NumberLen(s, AfterTimes(s, j)) = 0
    THEN 0
    ELSE AfterTimes(s, j) + NumberLen(s, AfterTimes(s, j))

\* the patterns of dim_patterns at position i: the length of the match, or 0
DimMatchLen(p, s, i) ==
    IF NumberLen(s, i) = 0 THEN 0
    ELSE CASE p = "triple" ->
                IF AfterFactor(s, AfterFactor(s, i + NumberLen(s, i))) = 0
                THEN 0
                ELSE AfterFactor(s, AfterFactor(s, i + NumberLen(s, i))) - i
           [] p = "pair" ->
                IF AfterFactor(s, i + NumberLen(s, i)) = 0 THEN 0
                ELSE AfterFactor(s, i + NumberLen(s, i)) - i
           [] p = "number" -> NumberLen(s, i)

\* the patterns tried from the shortest to the longest
DimPatternsShortestFirst == <<"number", "pair", "triple">>

DimPatterns == <<"triple", "pair", "number">>

MaxDimLen == 200

\* re.search(pattern, dimensions): the leftmost match, None if there is none
DimSearch(p, s) ==
    IF \E i \in 1..Len(s) : DimMatchLen(p, s, i) > 0
    THEN Some(SubSeq(s, First({i \in 1..Len(s) : DimMatchLen(p, s, i) > 0}),
                     First({i \in 1..Len(s) : DimMatchLen(p, s, i) > 0})
                        + DimMatchLen(p, s,
                              First({i \in 1..Len(s) : DimMatchLen(p, s, i) > 0}))
                        - 1))
    ELSE None

\* clean_dim = match.group(1).strip(), returned if it fits
DimFits(m) == IsSome(m) /\ Strip(Val(m)) # <<>> /\ Len(Strip(Val(m))) <= MaxDimLen

\* the loop over dim_patterns from the k-th on, then the general
\* sanitization
RECURSIVE DimFrom(_, _)
DimFrom(k, s) ==
    IF k > Len(DimPatterns)
    THEN SanitizeTextField(s, MaxDimLen)
    ELSE IF DimFits(DimSearch(DimPatterns[k], s))
         THEN Some(Strip(Val(DimSearch(DimPatterns[k], s))))
    ELSE DimFrom(k + 1, s)

SanitizeDimensionsField(dimensions) ==
    IF dimensions = <<>> THEN None
    ELSE DimFrom(1, Sub("var", dimensions))

DimFragments ==
    {<<"1","0">>, <<"x","2">>, <<" ","x"," ","3">>, <<"1",".","5","x","2","x","3">>,
     <<".","5">>, <<"v","a","r","(">>, <<")">>, <<"<","s","p","a","n",">">>,
     <<"c","m">>, <<Quote>>, <<"c","l","a","s","s","=">>}

MaxDimFragments == 3

RECURSIVE DimTextsOf(_)
DimTextsOf(n) ==
    IF n = 0 THEN {<<>>}
    ELSE {t \o f : t \in DimTextsOf(n - 1), f \in DimFragments \cup {<<>>}}

\* a number too long for the field
LongNumber == [k \in 1..(MaxDimLen + 1) |-> "1"]

LongDimTexts ==
    {LongNumber,
     <<"5","x","6","x">> \o LongNumber,
     <<"3"," ">> \o LongNumber \o <<"x","2">>,
     LongNumber \o <<"x","2"," ","7">>,
     <<"a","b"," ">> \o LongNumber}

DimTexts == DimTextsOf(MaxDimFragments) \cup LongDimTexts

CallSanitizeDimensions(text) ==
    /\ invoked = None
    /\ invoked' = Some([op |-> "_sanitize_dimensions_field", arg |-> text])
    /\ outcome' = Some(SanitizeDimensionsField(text))
    /\ UNCHANGED <<wrapper, task, semaphore, batch, earlier, now, rec, prev, text_in, max_length, text_out,
                   sku_in, sku_out, extractor, call, result>>

DimNext == \E text \in DimTexts : CallSanitizeDimensions(text)

SpecDimensions == Idle /\ [][DimNext]_vars

DimensionsCalled ==
    IsSome(invoked) /\ Val(invoked).op = "_sanitize_dimensions_field"

\* the text the patterns are searched in: the argument without var(...)
DimSearched == Sub("var", Val(invoked).arg)

Markup == {<<"c","l","a","s","s","=">>, <<Quote>>, <<"'">>, <<"<">>, <<">">>}

NoMarkup(o) == IsSome(o) => \A m \in Markup : ~Contains(Val(o), m)

\* C21 as stated: when the text has a numeric pattern, _sanitize_dimensions_field
\* returns the leftmost N x N x N match if there is one, otherwise the
\* leftmost N x N match, otherwise the first number; only a text without a
\* number goes through _sanitize_text_field; a result holds no class=,
\* quote or tag character.
C21_PatternFirst ==
    DimensionsCalled /\ Val(invoked).arg # <<>> =>
        /\ Val(outcome) =
              IF IsSome(DimSearch("triple", DimSearched))
              THEN DimSearch("triple", DimSearched)
              ELSE IF IsSome(DimSearch("pair", DimSearched))
              THEN DimSearch("pair", DimSearched)
              ELSE IF IsSome(DimSearch("number", DimSearched))
              THEN DimSearch("number", DimSearched)
              ELSE SanitizeTextField(DimSearched, MaxDimLen)
        /\ NoMarkup(Val(outcome))

\* the leftmost match of a pattern, if it is at most 200 characters long
FittingMatch(p) ==
    IF IsSome(DimSearch(p, DimSearched))
       /\ Len(Val(DimSearch(p, DimSearched))) <= MaxDimLen
    THEN DimSearch(p, DimSearched) ELSE None

\* C21, amended: _sanitize_dimensions_field returns the leftmost match of
\* the first of the patterns N x N x N, N x N, number whose leftmost match
\* is at most 200 characters long; a text where no pattern has such a match
\* goes through _sanitize_text_field with max_length 200; a result holds no
\* class=, quote or tag character.
C21_PatternFirstIfItFits ==
    DimensionsCalled /\ Val(invoked).arg # <<>> =>
        /\ Val(outcome) =
              IF IsSome(FittingMatch("triple")) THEN FittingMatch("triple")
              ELSE IF IsSome(FittingMatch("pair")) THEN FittingMatch("pair")
              ELSE IF IsSome(FittingMatch("number")) THEN FittingMatch("number")
              ELSE SanitizeTextField(DimSearched, MaxDimLen)
        /\ NoMarkup(Val(outcome))

\* a triple was taken out of a text with a tag around it
C21_Witness ==
    /\ DimensionsCalled
    /\ Contains(Val(invoked).arg, <<"<">>)
    /\ IsSome(DimSearch("triple", DimSearched))
    /\ Val(outcome) = DimSearch("triple", DimSearched)

-----------------------------------------------------------------------------
(* ProductExtractor._sanitize_color_field                                  *)

\* [0-9a-fA-F]
HexDigitsAnyCase == HexDigits \cup {"A", "B", "C", "D", "E", "F"}

\* re.match(r'^[0-9a-fA-F]{3,6}$', color)
IsBareHex(s) ==
    \E n \in 3..6 : RunLen(s, 1, HexDigitsAnyCase) >= n /\ AtDollar(s, n)

\* color.startswith(('#', 'rgb', 'hsl'))
ColorCodePrefixes == {<<"#">>, <<"r","g","b">>, <<"h","s","l">>}

MinColorLen == 2
MaxColorLen == 50

\* the validation that ends _sanitize_color_field
IsColorName(color) ==
    /\ Len(color) >= MinColorLen
    /\ Len(color) <= MaxColorLen
    /\ \A p \in ColorCodePrefixes : ~StartsWith(color, p)
    /\ ~IsBareHex(color)

\* the check made on every color
ColorNameOrNone(color) ==
    IF IsSome(color) /\ Val(color) # <<>> /\ IsColorName(Val(color))
    THEN color ELSE None

SanitizeColorField(color) ==
    IF color = <<>> THEN None
    ELSE ColorNameOrNone(
             SanitizeTextField(JoinSplit(SubEach(CssColorPatterns, color)),
                               MaxColorLen))

ColorFragments ==
    {<<"x"," ">>, <<"#","f">>, <<"{","}","f","f">>, <<"f","f">>,
     <<"r","g","b">>, <<"(","1",")">>, <<"r","e","d">>, <<"v","a","r","(">>,
     <<")">>, <<"c","o","l","o","r",":">>, <<";">>, <<"F","F","0">>}

MaxColorFragments == 3

RECURSIVE ColorTextsOf(_)
ColorTextsOf(n) ==
    IF n = 0 THEN {<<>>}
    ELSE {t \o f : t \in ColorTextsOf(n - 1), f \in ColorFragments \cup {<<>>}}

\* Names of colors: words of letters with single spaces between them
NameWords ==
    {<<"R","e","d">>, <<"D","a","r","k">>, <<"W","o","o","d">>,
     <<"b","e","i","g","e">>, <<"b","a","d">>, <<"f","a","c","e">>,
     <<"r","g","b">>, <<"n","u","l","l">>, <<"x">>}

ColorNames ==
    NameWords \cup {v \o <<" ">> \o w : v \in NameWords, w \in NameWords}

ColorTexts == ColorTextsOf(MaxColorFragments) \cup ColorNames

CallSanitizeColor(text) ==
    /\ invoked = None
    /\ invoked' = Some([op |-> "_sanitize_color_field", arg |-> text])
    /\ outcome' = Some(SanitizeColorField(text))
    /\ UNCHANGED <<wrapper, task, semaphore, batch, earlier, now, rec, prev, text_in, max_length, text_out,
                   sku_in, sku_out, extractor, call, result>>

ColorNext == \E text \in ColorTexts : CallSanitizeColor(text)

SpecColor == Idle /\ [][ColorNext]_vars

ColorCalled == IsSome(invoked) /\ Val(invoked).op = "_sanitize_color_field"

\* a #hex code or an rgb(...), rgba(...), hsl(...) or hsla(...) expression
ColorCodes == {"hex", "rgb", "rgba", "hsl", "hsla"}

\* the text is nothing but CSS color codes and declarations
OnlyColorCode(text) ==
    text # <<>> /\ JoinSplit(SubEach(CssColorPatterns, text)) = <<>>

\* C22: the result of _sanitize_color_field is None or a text that does not
\* start with #, rgb or hsl, is not a bare hex string of 3 to 6 digits and
\* holds no #hex code and no rgb(...), rgba(...), hsl(...) or hsla(...)
\* expression, also none that the removal stages leave or form; a text that
\* is only a CSS color code or declaration gives None.
C22_NoCssColorSyntax ==
    ColorCalled =>
        /\ IsSome(Val(outcome)) =>
              /\ \A p \in ColorCodePrefixes : ~StartsWith(Val(outcome)[1], p)
              /\ ~IsBareHex(Val(outcome)[1])
              /\ \A p \in ColorCodes : ~HasMatch(p, Val(outcome)[1])
        /\ OnlyColorCode(Val(invoked).arg) => IsNone(Val(outcome))

\* the parts of C22 about the start of the result, bare hex strings and
\* texts that are only a color code
C22_NoColorCodeAtStart ==
    ColorCalled =>
        /\ IsSome(Val(outcome)) =>
              /\ \A p \in ColorCodePrefixes : ~StartsWith(Val(outcome)[1], p)
              /\ ~IsBareHex(Val(outcome)[1])
        /\ OnlyColorCode(Val(invoked).arg) => IsNone(Val(outcome))

\* letters (Latin or Thai) separated by single spaces, 2 to 50 characters
IsLetterName(s) ==
    /\ Len(s) >= MinColorLen
    /\ Len(s) <= MaxColorLen
    /\ \A i \in 1..Len(s) : s[i] \in Letters \cup {" "}
    /\ s[1] # " " /\ s[Len(s)] # " "
    /\ \A i \in 1..(Len(s) - 1) : ~(s[i] = " " /\ s[i + 1] = " ")

\* C23: _sanitize_color_field returns every color name made only of letters
\* separated by single spaces, 2 to 50 characters long, exactly as given.
C23_NamesUnchanged ==
    (ColorCalled /\ IsLetterName(Val(invoked).arg)) =>
        Val(outcome) = Some(Val(invoked).arg)

-----------------------------------------------------------------------------
(* ProductExtractor._extract_product_name on its own                       *)

NameCandidates ==
    {<<>>,
     <<"S","a","w"," ","1","2">>, <<"S","a","w">>,
     <<"L","A","Z","A","D","A">>, <<"l","a","z","a","d","a">>,
     <<"<","b",">","S","h","o","p","e","e","<","/","b",">">>,
     <<"V","i","v","i","n">>, <<"v","i","v","i","n">>,
     <<"b","a","n","n","e","r">>,
     <<"H","o","m","e","P","r","o"," ","S","a","w"," ","1","2">>,
     <<"H","o","m","e","P","r","o"," ","L","a","z","a","d","a">>,
     <<"m","e","g","a"," ","h","o","m","e"," ","x">>,
     <<"w","a","t","s","a","d","u"," ","S","a","w">>,
     <<"V","i","v","i","n"," ","S","a","w"," ","1","2">>,
     <<"v","i","v","i","n"," ","S","a","w"," ","1","2">>,
     <<"H","o","m","e","P","r","o","&","n","b","s","p",";","X","1","2","3">>}

MaxNamePatterns == 3

\* The captures of the patterns that match a page, in pattern order
CaptureLists ==
    UNION {[1..n -> NameCandidates] : n \in 0..MaxNamePatterns}

CallExtractProductName(caps) ==
    /\ invoked = None
    /\ invoked' = Some([op |-> "_extract_product_name", arg |-> caps])
    /\ outcome' = Some(ExtractProductName(caps))
    /\ UNCHANGED <<wrapper, task, semaphore, batch, earlier, now, rec, prev, text_in, max_length, text_out,
                   sku_in, sku_out, extractor, call, result>>

NameNext == \E caps \in CaptureLists : CallExtractProductName(caps)

SpecName == Idle /\ [][NameNext]_vars

NameCalled == IsSome(invoked) /\ Val(invoked).op = "_extract_product_name"

\* a known retailer name, whatever the case of the letters
IsRetailerName(name) ==
    \E i \in 1..Len(RetailerNames) : Lower(name) = Lower(RetailerNames[i])

\* the candidate without the leading '<retailer> ', if it has one
WithoutRetailer(name) ==
    IF \E i \in 1..Len(RetailerNames) :
           StartsWith(Lower(name), Lower(RetailerNames[i]) \o <<" ">>)
    THEN LET i == CHOOSE i \in 1..Len(RetailerNames) :
                      StartsWith(Lower(name), Lower(RetailerNames[i]) \o <<" ">>)
         IN  Strip(From(name, Len(RetailerNames[i]) + 1))
    ELSE name

\* the name the candidates give as stated: the first one, in pattern order,
\* that is no retailer name and is longer than 3 without its retailer prefix
RECURSIVE StatedName(_)
StatedName(caps) ==
    IF caps = <<>> THEN None
    ELSE IF ~IsRetailerName(CleanText(Head(caps)))
            /\ Len(WithoutRetailer(CleanText(Head(caps)))) > 3
         THEN Some(WithoutRetailer(CleanText(Head(caps))))
         ELSE StatedName(Tail(caps))

\* C24: _extract_product_name tries its patterns in order and returns the
\* first candidate that is not equal to a known retailer name (whatever the
\* case, for every entry of the denylist), with a leading '<retailer> '
\* removed, and only if what is left is longer than 3 characters; a rejected
\* candidate makes it go on with the next pattern.
C24_FirstNameThatIsNoRetailer ==
    NameCalled => Val(outcome) = StatedName(Val(invoked).arg)

\* the same for candidates that do not have the retailer name Vivin in them
NoVivin(caps) ==
    \A k \in 1..Len(caps) :
        ~StartsWith(Lower(CleanText(caps[k])), <<"v","i","v","i","n">>)

C24_ExceptVivin ==
    (NameCalled /\ NoVivin(Val(invoked).arg)) =>
        Val(outcome) = StatedName(Val(invoked).arg)

-----------------------------------------------------------------------------
(* BoonthavornExtractor: the generic extraction as a supplement            *)

BoonthavornCalled ==
    /\ Returned
    /\ Val(extractor).cls = "BoonthavornExtractor"

\* what the generic extract_from_html returns for the page of the call
GenericResult ==
    BaseExtractFromHtml(Val(extractor).base_url, Val(call).page,
                        Val(call).url, now).out

\* the record as the JSON-LD, quick-info and old-price steps leave it
SpecialisedRecord ==
    BoonthavornStructured(Val(call).page, Val(call).url, now)

\* a field without a value: None, an empty text, an empty list
Unfilled(f, v) ==
    \/ v = <<>>
    \/ f \notin {"current_price", "original_price", "images"} /\ v = Some(<<>>)

SupplementedFields ==
    {"name", "description", "brand", "model", "sku", "category",
     "current_price", "original_price", "volume", "dimensions", "material",
     "color", "images"}

\* the field f of the returned record is the one of the generic extraction
\* where the specialised steps left it unfilled
Supplemented(f) ==
    Unfilled(f, SpecialisedRecord[f]) => Product[f] = GenericResult.data[f]

\* C25: in a record of BoonthavornExtractor every field that the JSON-LD and
\* quick-info steps leave unfilled has the value the generic extraction
\* gives it: name, description, brand, model, sku, category, the prices,
\* volume, dimensions, material, color and images alike.
C25_EveryFieldSupplemented ==
    (BoonthavornCalled /\ GenericResult.kind = "record") =>
        \A f \in SupplementedFields : Supplemented(f)

\* the fields the code does supplement
C25_NameAndImagesSupplemented ==
    (BoonthavornCalled /\ GenericResult.kind = "record") =>
        \A f \in {"name", "description", "images", "material"} : Supplemented(f)

\* C26: _sanitize_text_field is idempotent: a text it returns is returned
\* unchanged when it is sanitized again with the same max_length.
C26_SanitizeIdempotent ==
    (IsSome(text_out) /\ IsSome(Val(text_out))) =>
        SanitizeTextField(Val(Val(text_out)), max_length) = Val(text_out)

-----------------------------------------------------------------------------
(* crawl4ai_wrapper.py: Crawl4AIWrapper.  A coroutine runs without          *)
(* interruption from one await that suspends it to the next, so one action  *)
(* is the code between two such awaits: crawler.start(), crawler.close(),   *)
(* crawler.arun() and asyncio.sleep().  A crawler is a number; its state is *)
(* "new" (constructed), "started", "crashed" (the browser is gone) or       *)
(* "closed".  self.crawler is 0 for None.                                   *)

\* max_init_attempts of initialize
MaxInitAttempts == 3

\* ScrapingConfig.retry_delay
RetryDelay == 2

\* state of the coroutine k and of the wrapper w after a piece of code
After(k, w) == [k |-> k, w |-> w]

\* a scrape_url call that has not begun; under is TRUE for a call made
\* under `async with semaphore`
NewCall(valid, under) ==
    [pc |-> "call", valid |-> valid, under |-> under, ret |-> "none",
     mode |-> "none", init_attempt |-> 0, attempt |-> 0, mine |-> 0,
     success |-> FALSE, error_message |-> "", raised |-> FALSE,
     crawls |-> 0, late |-> 0, waits |-> <<>>, misuse |-> "none"]

\* `return result` of scrape_url, or the exception that leaves it; a call
\* under a semaphore goes on with asyncio.sleep(delay) and the release
Leave(k, w, raised) ==
    After([k EXCEPT !.pc = IF k.under /\ semaphore.delay THEN "delay"
                           ELSE IF k.under THEN "released" ELSE "done",
                    !.raised = raised], w)

\* initialize, one round of its loop up to `await self.crawler.start()`
Initialize(k, w, mode, init_attempt) ==
    After([k EXCEPT !.pc = "starting", !.mode = mode,
                    !.init_attempt = init_attempt,
                    !.mine = Len(w.crawlers) + 1],
          [w EXCEPT !.crawler = Len(w.crawlers) + 1,
                    !.crawlers = Append(@, "new")])

\* crawler.close() makes a crawler that runs or has crashed closed
Closed(crawlers, c) ==
    IF crawlers[c] \in {"started", "crashed"}
    THEN [crawlers EXCEPT ![c] = "closed"] ELSE crawlers

\* close(): `if self.crawler: await self.crawler.close()`; the code that
\* follows the await is at pc then
Close(k, w, then) ==
    After([k EXCEPT !.pc = then],
          [w EXCEPT !.crawlers = IF w.crawler # 0 THEN Closed(@, w.crawler)
                                 ELSE @])

\* the end of a round of the retry loop that did not succeed: the next
\* round begins with asyncio.sleep(retry_delay * (attempt + 1))
NextAttempt(k, w) ==
    IF k.attempt + 1 >= w.retry_attempts THEN Leave(k, w, FALSE)
    ELSE After([k EXCEPT !.pc = "sleeping", !.attempt = @ + 1,
                         !.waits = Append(@, RetryDelay * (k.attempt + 2))],
               w)

\* `except Exception as e` of scrape_url; browser: the message has one of
\* the browser_error_keywords
Except(k, w, browser) ==
    IF browser /\ w.crawler # 0
    THEN Close([k EXCEPT !.error_message = "Scraping error"], w, "closed")
    ELSE NextAttempt([k EXCEPT !.error_message = "Scraping error"],
                     [w EXCEPT !.crawler = IF browser THEN 0 ELSE @])

\* self.crawler.arun(...) up to the await; None has no arun
Arun(k, w) ==
    IF w.crawler = 0
    THEN Except([k EXCEPT !.misuse = "null"], w, FALSE)
    ELSE After([k EXCEPT !.pc = "crawling", !.mine = w.crawler,
                         !.crawls = @ + 1,
                         !.late = IF k.success THEN @ + 1 ELSE @,
                         !.misuse = IF w.crawlers[w.crawler] = "closed"
                                    THEN "closed" ELSE @],
               w)

\* is_connected() of the health check is false; seen is what the check can
\* see of a browser that is gone
Disconnected(w, seen) ==
    /\ w.crawler # 0
    /\ w.crawlers[w.crawler] \in {"crashed", "closed"}
    /\ seen

\* ensure_crawler_ready as called in the retry loop (line 337)
EnsureInLoop(k, w, seen) ==
    IF w.crawler = 0 THEN Initialize([k EXCEPT !.ret = "loop"], w, "plain", 0)
    ELSE IF Disconnected(w, seen)
         THEN Close([k EXCEPT !.ret = "loop"], w, "disconnected")
         ELSE Arun(k, w)

\* the retry loop from its first round
RetryLoop(k, w, seen) ==
    IF w.retry_attempts = 0 THEN Leave(k, w, FALSE)
    ELSE EnsureInLoop([k EXCEPT !.attempt = 0], w, seen)

\* ensure_crawler_ready as called before the loop (line 317)
EnsureCrawlerReady(k, w, seen) ==
    IF w.crawler = 0 THEN Initialize([k EXCEPT !.ret = "entry"], w, "plain", 0)
    ELSE IF Disconnected(w, seen)
         THEN Close([k EXCEPT !.ret = "entry"], w, "disconnected")
         ELSE RetryLoop(k, w, seen)

\* scrape_url from its first line
ScrapeUrl(k, w, seen) ==
    IF ~k.valid
    THEN Leave([k EXCEPT !.error_message = "URL"], w, FALSE)
    ELSE EnsureCrawlerReady(k, w, seen)

\* ensure_crawler_ready returns to its caller
Ready(k, w) ==
    CASE k.ret = "entry" -> RetryLoop(k, w, FALSE)
      [] k.ret = "loop" -> Arun(k, w)
      [] k.ret = "context" -> After([k EXCEPT !.pc = "gathering"], w)

\* an exception leaves ensure_crawler_ready
NotReady(k, w) ==
    CASE k.ret = "entry" -> Leave(k, w, TRUE)
      [] k.ret = "loop" -> Except(k, w, FALSE)
      [] k.ret = "context" -> After([k EXCEPT !.pc = "done", !.raised = TRUE], w)

\* `raise` of initialize after its last round
InitializeRaises(k, w) ==
    IF k.mode = "try" THEN Close(k, w, "handler") ELSE NotReady(k, w)

\* `except Exception as e` of initialize
StartFailed(k, w) ==
    IF k.init_attempt < MaxInitAttempts - 1
    THEN IF w.crawler # 0 THEN Close(k, w, "cleaned")
         ELSE After([k EXCEPT !.pc = "init_sleep"], w)
    ELSE InitializeRaises(k, w)

\* asyncio.Semaphore: acquire() with a permit at hand, and release()
TakeNoPermit(s) == s
AcquirePermit(s) == [s EXCEPT !.permits = @ - 1]
ReleasePermit(s) == [s EXCEPT !.permits = @ + 1]

\* the end of `async with semaphore` when the call is left without a delay
WriteWith(t, r, s) ==
    /\ task' = [task EXCEPT ![t] = IF r.k.pc = "released"
                                   THEN [r.k EXCEPT !.pc = "done"] ELSE r.k]
    /\ wrapper' = r.w
    /\ semaphore' = IF r.k.pc = "released" THEN ReleasePermit(s) ELSE s

Write(t, r) == WriteWith(t, r, semaphore)

Extraction ==
    <<now, rec, prev, text_in, max_length, text_out, sku_in, sku_out,
      extractor, call, result, invoked, outcome, earlier>>

\* the call begins: a direct call of scrape_url
Call(t, seen) ==
    /\ task[t].pc = "call" /\ ~task[t].under
    /\ Write(t, ScrapeUrl(task[t], wrapper, seen))
    /\ UNCHANGED <<Extraction, batch>>

\* `await self.crawler.start()` returns
Started(t) ==
    /\ task[t].pc = "starting" /\ wrapper.launch = "ok"
    /\ Write(t, Ready(task[t],
                      [wrapper EXCEPT !.crawlers[task[t].mine] = "started"]))
    /\ UNCHANGED <<Extraction, batch>>

\* `await self.crawler.start()` raises: the browser cannot be launched
StartRaises(t) ==
    /\ task[t].pc = "starting" /\ wrapper.launch = "broken"
    /\ Write(t, StartFailed(task[t], wrapper))
    /\ UNCHANGED <<Extraction, batch>>

\* initialize after the close() of its cleanup: self.crawler = None and
\* asyncio.sleep
CleanedUp(t) ==
    /\ task[t].pc = "cleaned"
    /\ Write(t, After([task[t] EXCEPT !.pc = "init_sleep"],
                      [wrapper EXCEPT !.crawler = 0]))
    /\ UNCHANGED <<Extraction, batch>>

\* the next round of initialize
InitializeAgain(t) ==
    /\ task[t].pc = "init_sleep"
    /\ Write(t, Initialize(task[t], wrapper, task[t].mode,
                           task[t].init_attempt + 1))
    /\ UNCHANGED <<Extraction, batch>>

\* ensure_crawler_ready after `await self.close()` of a disconnected
\* browser: self.crawler = None and initialize, inside its try
Reinitialize(t) ==
    /\ task[t].pc = "disconnected"
    /\ Write(t, Initialize(task[t], [wrapper EXCEPT !.crawler = 0], "try", 0))
    /\ UNCHANGED <<Extraction, batch>>

\* ensure_crawler_ready after `await self.close()` of its except clause
ReinitializeInHandler(t) ==
    /\ task[t].pc = "handler"
    /\ Write(t, Initialize(task[t], [wrapper EXCEPT !.crawler = 0],
                           "handler", 0))
    /\ UNCHANGED <<Extraction, batch>>

\* asyncio.sleep of the retry loop returns
Retry(t, seen) ==
    /\ task[t].pc = "sleeping"
    /\ Write(t, EnsureInLoop(task[t], wrapper, seen))
    /\ UNCHANGED <<Extraction, batch>>

\* arun returns a result with success
CrawlSucceeds(t) ==
    /\ task[t].pc = "crawling"
    /\ wrapper.crawlers[task[t].mine] = "started"
    /\ Write(t, Leave([task[t] EXCEPT !.success = TRUE], wrapper, FALSE))
    /\ UNCHANGED <<Extraction, batch>>

\* arun returns a result without success
CrawlFails(t) ==
    /\ task[t].pc = "crawling"
    /\ wrapper.crawlers[task[t].mine] = "started"
    /\ Write(t, NextAttempt([task[t] EXCEPT !.error_message = "Crawl failed"],
                            wrapper))
    /\ UNCHANGED <<Extraction, batch>>

\* arun raises: with a browser message when the crawler does not run
CrawlRaises(t) ==
    /\ task[t].pc = "crawling"
    /\ Write(t, Except(task[t], wrapper,
                       wrapper.crawlers[task[t].mine] # "started"))
    /\ UNCHANGED <<Extraction, batch>>

\* scrape_url after `await self.close()` of its except clause
ClosedAfterCrash(t) ==
    /\ task[t].pc = "closed"
    /\ Write(t, NextAttempt(task[t], [wrapper EXCEPT !.crawler = 0]))
    /\ UNCHANGED <<Extraction, batch>>

\* the browser of a running crawler crashes
Crash ==
    /\ wrapper.faults > 0
    /\ \E c \in 1..Len(wrapper.crawlers) :
          /\ wrapper.crawlers[c] = "started"
          /\ wrapper' = [wrapper EXCEPT !.crawlers[c] = "crashed",
                                        !.faults = @ - 1]
    /\ UNCHANGED <<Extraction, task, semaphore, batch>>

\* from now on a browser cannot be launched
Break ==
    /\ wrapper.faults > 0 /\ wrapper.launch = "ok"
    /\ wrapper' = [wrapper EXCEPT !.launch = "broken", !.faults = @ - 1]
    /\ UNCHANGED <<Extraction, task, semaphore, batch>>

\* a browser can be launched again
Repair ==
    /\ wrapper.launch = "broken"
    /\ wrapper' = [wrapper EXCEPT !.launch = "ok"]
    /\ UNCHANGED <<Extraction, task, semaphore, batch>>

\* what happens to the browsers
Faults == Crash \/ Break \/ Repair

\* the steps of the scrape_url call of coroutine t
ScrapeUrlStep(t) ==
    \/ Started(t) \/ StartRaises(t) \/ CleanedUp(t) \/ InitializeAgain(t)
    \/ Reinitialize(t) \/ ReinitializeInHandler(t)
    \/ \E seen \in BOOLEAN : Retry(t, seen)
    \/ CrawlSucceeds(t) \/ CrawlFails(t) \/ CrawlRaises(t)
    \/ ClosedAfterCrash(t)

MaxRetryAttempts == 3
MaxFaults == 3

\* a wrapper before __aenter__ or inside `async with`, and one call
ScrapeUrlInit ==
    /\ now = 0 /\ rec = None /\ prev = None
    /\ text_in = None /\ max_length = 0 /\ text_out = None
    /\ sku_in = None /\ sku_out = None
    /\ extractor = None /\ call = None /\ result = None
    /\ invoked = None /\ outcome = None /\ earlier = <<>>
    /\ semaphore = None /\ batch = None
    /\ \E entered \in BOOLEAN, r \in 1..MaxRetryAttempts, f \in {0, MaxFaults} :
          wrapper = [crawler |-> IF entered THEN 1 ELSE 0,
                     crawlers |-> IF entered THEN <<"started">> ELSE <<>>,
                     retry_attempts |-> r, faults |-> f, launch |-> "ok"]
    /\ \E valid \in BOOLEAN : task = <<NewCall(valid, FALSE)>>

ScrapeUrlNext ==
    \/ \E seen \in BOOLEAN : Call(1, seen)
    \/ ScrapeUrlStep(1)
    \/ Faults

SpecScrapeUrl == ScrapeUrlInit /\ [][ScrapeUrlNext]_vars

\* The call is over
Over(t) == task[t].pc = "done"

\* the waits before the retries of a call: retry_delay * (attempt + 1)
StatedWaits(k) == [i \in 1..Len(k.waits) |-> RetryDelay * (i + 1)]

\* C27: for a valid URL and retry_attempts >= 1 a scrape_url call that is
\* over has returned a result and has not raised; it made at most
\* retry_attempts crawl attempts, none of them after a successful one, waited
\* retry_delay * (attempt + 1) before each retry, and its result has success
\* exactly if an attempt succeeded, and an error_message otherwise.
C27_ReturnsAResult ==
    (Over(1) /\ task[1].valid) =>
        /\ ~task[1].raised
        /\ task[1].crawls <= wrapper.retry_attempts
        /\ task[1].late = 0
        /\ task[1].waits = StatedWaits(task[1])
        /\ Len(task[1].waits) < wrapper.retry_attempts
        /\ ~task[1].success => task[1].error_message # ""

\* the same for the calls that are not left by an exception
C27_ReturnedResults ==
    (Over(1) /\ task[1].valid /\ ~task[1].raised) =>
        /\ task[1].crawls <= wrapper.retry_attempts
        /\ task[1].late = 0
        /\ task[1].waits = StatedWaits(task[1])
        /\ Len(task[1].waits) < wrapper.retry_attempts
        /\ ~task[1].success => task[1].error_message # ""

\* every call ends
C27_Terminates == <>Over(1)

FairScrapeUrl ==
    SpecScrapeUrl /\ WF_vars(\E seen \in BOOLEAN : Call(1, seen))
                  /\ WF_vars(ScrapeUrlStep(1))

-----------------------------------------------------------------------------
(* The calls of scrape_url that share one wrapper under a semaphore:        *)
(* batch mode of adw_ecommerce_product_scraper.py (run_scraping) and the    *)
(* per-URL fallback of Crawl4AIWrapper.scrape_urls.  Coroutine 0 is the one *)
(* that creates the others and waits for them.                              *)

MaxTasks == 2
MaxConcurrent == 2
MaxSharedFaults == 1
SharedRetryAttempts == 2

Workers == 1..MaxTasks

\* the number of coroutines created with the first semaphore
FirstBatch(per_batch, max_concurrent) ==
    IF per_batch /\ max_concurrent < MaxTasks THEN max_concurrent
    ELSE MaxTasks

\* run_scraping before `async with wrapper`, or scrape_urls at its fallback
\* on a wrapper that is inside `async with`
SharedInit ==
    /\ now = 0 /\ rec = None /\ prev = None
    /\ text_in = None /\ max_length = 0 /\ text_out = None
    /\ sku_in = None /\ sku_out = None
    /\ extractor = None /\ call = None /\ result = None
    /\ invoked = None /\ outcome = None /\ earlier = <<>>
    /\ batch = None
    /\ \E per_batch \in BOOLEAN, max_concurrent \in 1..MaxConcurrent,
          delay \in BOOLEAN, launch \in {"ok", "broken"} :
          /\ semaphore = [permits |-> max_concurrent,
                          max_concurrent |-> max_concurrent,
                          delay |-> delay, per_batch |-> per_batch,
                          created |-> FirstBatch(per_batch, max_concurrent)]
          /\ wrapper = [crawler |-> IF per_batch THEN 1 ELSE 0,
                        crawlers |-> IF per_batch THEN <<"started">> ELSE <<>>,
                        retry_attempts |-> SharedRetryAttempts,
                        faults |-> MaxSharedFaults, launch |-> launch]
          /\ task = [t \in {0} \cup Workers |->
                        IF t = 0
                        THEN [NewCall(TRUE, FALSE) EXCEPT
                                 !.pc = IF per_batch THEN "gathering"
                                        ELSE "enter"]
                        ELSE NewCall(TRUE, TRUE)]

\* __aenter__: initialize
Enter ==
    /\ task[0].pc = "enter"
    /\ Write(0, Initialize([task[0] EXCEPT !.ret = "context"], wrapper,
                           "plain", 0))
    /\ UNCHANGED <<Extraction, batch>>

\* scrape_with_semaphore: `async with semaphore`, then scrape_url up to
\* its first await
Acquire(t, seen) ==
    /\ task[0].pc = "gathering"
    /\ t <= semaphore.created
    /\ task[t].pc = "call" /\ task[t].under
    /\ semaphore.permits > 0
    /\ WriteWith(t, ScrapeUrl(task[t], wrapper, seen), AcquirePermit(semaphore))
    /\ UNCHANGED <<Extraction, batch>>

\* asyncio.sleep(delay) returns and `async with semaphore` is left
Release(t) ==
    /\ task[t].pc = "delay"
    /\ task' = [task EXCEPT ![t].pc = "done"]
    /\ semaphore' = ReleasePermit(semaphore)
    /\ UNCHANGED <<Extraction, wrapper, batch>>

\* every coroutine created so far is over
Gathered == \A t \in Workers : t <= semaphore.created => task[t].pc = "done"

\* scrape_urls: asyncio.gather of a batch returns and the next batch is
\* created, with a semaphore of its own
NextBatch ==
    /\ task[0].pc = "gathering" /\ semaphore.per_batch
    /\ Gathered /\ semaphore.created < MaxTasks
    /\ semaphore' = [semaphore EXCEPT
                        !.permits = semaphore.max_concurrent,
                        !.created = IF @ + semaphore.max_concurrent < MaxTasks
                                    THEN @ + semaphore.max_concurrent
                                    ELSE MaxTasks]
    /\ UNCHANGED <<Extraction, wrapper, task, batch>>

\* __aexit__: close
Exit ==
    /\ task[0].pc = "gathering" /\ ~semaphore.per_batch
    /\ Gathered
    /\ Write(0, Close(task[0], wrapper, "exited"))
    /\ UNCHANGED <<Extraction, batch>>

\* what the coroutines do
Scheduled ==
    \/ Enter
    \/ \E t \in Workers, seen \in BOOLEAN : Acquire(t, seen)
    \/ \E t \in {0} \cup Workers : ScrapeUrlStep(t)
    \/ \E t \in Workers : Release(t)
    \/ NextBatch
    \/ Exit

SharedNext == Scheduled \/ Crash

SpecShared == SharedInit /\ [][SharedNext]_vars

\* The event loop runs a coroutine that can go on, and every await on the
\* crawler and on a sleep returns or raises
FairShared == SpecShared /\ WF_vars(Scheduled)

\* the coroutines inside `async with semaphore`
InProgress == {t \in Workers : task[t].pc \notin {"call", "done"}}

\* the coroutines were created
Submitted == task[0].pc = "gathering"

AllProcessed == \A t \in Workers : task[t].pc = "done"

\* C29: at no point are more than max_concurrent calls inside `async with
\* semaphore`, in batch mode and in the fallback of scrape_urls, and once
\* the coroutines are created every one of them comes to its end, with its
\* permit given back, also when its scrape_url fails or raises.
C29_BoundedAndProcessed ==
    /\ [](Cardinality(InProgress) <= semaphore.max_concurrent)
    /\ [](AllProcessed => semaphore.permits = semaphore.max_concurrent)
    /\ Submitted ~> AllProcessed

\* a call has failed and has given back the only permit, and another call
\* that had to wait for it is in progress
C29_Witness ==
    /\ semaphore.max_concurrent = 1 /\ ~semaphore.per_batch
    /\ \E t \in Workers : task[t].pc = "done" /\ ~task[t].success
    /\ \E t \in Workers : task[t].pc = "crawling"

\* the crawlers that run
Running == {c \in 1..Len(wrapper.crawlers) : wrapper.crawlers[c] = "started"}

\* C30: whatever the interleaving of the scrape_url calls on one wrapper, at
\* most one crawler runs at any time, no call crawls with a crawler
\* reference that is None or closed, and no crawler runs once the context
\* of the wrapper is left.
C30_OneCrawlerAtATime ==
    /\ Cardinality(Running) <= 1
    /\ \A t \in Workers : task[t].misuse = "none"
    /\ task[0].pc = "exited" => Running = {}

\* with one call at a time the same holds
C30_OneCallAtATime ==
    semaphore.max_concurrent = 1 => C30_OneCrawlerAtATime

-----------------------------------------------------------------------------
(* Crawl4AIWrapper.scrape_urls.  A URL is its position in the list of the   *)
(* call; a result is [url, page, success]: the URL it is labelled with, and *)
(* the URL whose page it carries (0 when it carries none).  What a          *)
(* scrape_url call of the fallback gives is one of its outcomes.            *)

MaxUrls == 3

\* validate_url on every URL of the list: the valid ones, in order
RECURSIVE ValidatedUrls(_, _)
ValidatedUrls(urls, i) ==
    IF i > Len(urls) THEN <<>>
    ELSE (IF urls[i] THEN <<i>> ELSE <<>>) \o ValidatedUrls(urls, i + 1)

\* the results made for the invalid ones, in order
RECURSIVE InvalidResults(_, _)
InvalidResults(urls, i) ==
    IF i > Len(urls) THEN <<>>
    ELSE (IF urls[i] THEN <<>>
          ELSE <<[url |-> i, page |-> 0, success |-> FALSE]>>)
         \o InvalidResults(urls, i + 1)

\* _process_crawl_result(crawl_result, url) for the crawl result of page
ProcessCrawlResult(page, success, url) ==
    [url |-> url, page |-> IF success THEN page ELSE 0, success |-> success]

\* what a scrape_url call of the fallback gives for url: a result with or
\* without success, or an exception, which gather returns and the loop
\* turns into a result
Outcomes == {"success", "failure", "raised"}

BatchResult(url, o) ==
    [url |-> url, page |-> IF o = "success" THEN url ELSE 0,
     success |-> o = "success"]

\* `return invalid_results + results`
ReturnResults(b) ==
    [b EXCEPT !.pc = "done",
              !.returned = Some(b.invalid_results \o b.results)]

\* scrape_urls up to the batch crawl
BeginScrapeUrls(b, launched) ==
    IF b.urls = <<>> THEN [b EXCEPT !.pc = "done", !.returned = Some(<<>>)]
    ELSE IF ~b.crawler /\ ~launched THEN [b EXCEPT !.pc = "done", !.raised = TRUE]
    ELSE IF ValidatedUrls(b.urls, 1) = <<>>
         THEN [b EXCEPT !.pc = "done",
                        !.returned = Some(InvalidResults(b.urls, 1))]
         ELSE [b EXCEPT !.pc = IF b.use_arun_many THEN "arun_many"
                               ELSE "fallback",
                        !.crawler = TRUE,
                        !.validated_urls = ValidatedUrls(b.urls, 1),
                        !.invalid_results = InvalidResults(b.urls, 1)]

ScrapeUrlsInit ==
    /\ now = 0 /\ rec = None /\ prev = None
    /\ text_in = None /\ max_length = 0 /\ text_out = None
    /\ sku_in = None /\ sku_out = None
    /\ extractor = None /\ call = None /\ result = None
    /\ invoked = None /\ outcome = None /\ earlier = <<>>
    /\ wrapper = None /\ task = <<>> /\ semaphore = None
    /\ \E n \in 0..MaxUrls, crawler \in BOOLEAN, use_arun_many \in BOOLEAN,
          max_concurrent \in 1..MaxConcurrent :
          \E urls \in [1..n -> BOOLEAN] :
              batch = [pc |-> "call", urls |-> urls, crawler |-> crawler,
                       use_arun_many |-> use_arun_many,
                       max_concurrent |-> max_concurrent,
                       validated_urls |-> <<>>, invalid_results |-> <<>>,
                       results |-> <<>>, pending |-> {}, url_index |-> 0,
                       i |-> 0, returned |-> None, raised |-> FALSE]

Crawling == <<Extraction, wrapper, task, semaphore>>

\* scrape_urls(urls); launched: initialize can start a crawler
CallScrapeUrls(launched) ==
    /\ batch.pc = "call"
    /\ batch' = BeginScrapeUrls(batch, launched)
    /\ UNCHANGED Crawling

\* `await self.crawler.arun_many(...)` returns the stream of the results
ArunManyReturns ==
    /\ batch.pc = "arun_many"
    /\ batch' = [batch EXCEPT !.pc = "streaming",
                              !.pending = Range(batch.validated_urls)]
    /\ UNCHANGED Crawling

\* arun_many raises, at the call or while its results are read
ArunManyRaises ==
    /\ batch.pc \in {"arun_many", "streaming"}
    /\ batch.pending # {} \/ batch.pc = "arun_many"
    /\ batch' = [batch EXCEPT !.pc = "fallback", !.pending = {}]
    /\ UNCHANGED Crawling

\* `async for crawl_result in crawl_results`: the crawl of page is the next
\* one to finish
StreamResult(page, success) ==
    /\ batch.pc = "streaming" /\ page \in batch.pending
    /\ batch' = [batch EXCEPT
          !.url_index = @ + 1,
          !.pending = @ \ {page},
          !.results = Append(@, ProcessCrawlResult(page, success,
                                   batch.validated_urls[batch.url_index + 1]))]
    /\ UNCHANGED Crawling

\* the stream is at its end
StreamEnds ==
    /\ batch.pc = "streaming" /\ batch.pending = {}
    /\ batch' = ReturnResults(batch)
    /\ UNCHANGED Crawling

\* the URLs of the batch that begins after the first i validated URLs
BatchOf(b) ==
    SubSeq(b.validated_urls, b.i + 1,
           IF b.i + b.max_concurrent < Len(b.validated_urls)
           THEN b.i + b.max_concurrent ELSE Len(b.validated_urls))

\* one batch of the fallback: gather, and its results in the order of the
\* batch
FallbackBatch(outs) ==
    /\ batch.pc = "fallback" /\ batch.i < Len(batch.validated_urls)
    /\ DOMAIN outs = 1..Len(BatchOf(batch))
    /\ batch' = [batch EXCEPT
          !.i = @ + batch.max_concurrent,
          !.results = @ \o [k \in 1..Len(BatchOf(batch)) |->
                                BatchResult(BatchOf(batch)[k], outs[k])]]
    /\ UNCHANGED Crawling

\* the fallback is at its end
FallbackEnds ==
    /\ batch.pc = "fallback" /\ batch.i >= Len(batch.validated_urls)
    /\ batch' = ReturnResults(batch)
    /\ UNCHANGED Crawling

ScrapeUrlsNext ==
    \/ \E launched \in BOOLEAN : CallScrapeUrls(launched)
    \/ ArunManyReturns
    \/ ArunManyRaises
    \/ \E page \in 1..MaxUrls, success \in BOOLEAN : StreamResult(page, success)
    \/ StreamEnds
    \/ \E n \in 1..MaxConcurrent : \E outs \in [1..n -> Outcomes] :
          FallbackBatch(outs)
    \/ FallbackEnds

SpecScrapeUrls == ScrapeUrlsInit /\ [][ScrapeUrlsNext]_vars

\* the call has returned its list
ReturnedList == batch.pc = "done" /\ IsSome(batch.returned)

\* the i-th result is the one of the i-th URL, with its page if it has one
Aligned(urls, results) ==
    /\ Len(results) = Len(urls)
    /\ \A i \in 1..Len(results) :
          /\ results[i].url = i
          /\ results[i].page \in {0, i}

\* C28: the list scrape_urls returns has one result for every URL of its
\* argument, the i-th result for the i-th URL and with its page, whatever
\* the URLs that are invalid, the order in which the crawls of arun_many
\* finish, and the point at which arun_many fails.
C28_OneResultPerUrlInOrder ==
    ReturnedList => Aligned(batch.urls, Val(batch.returned))

\* the same for a list of valid URLs that is crawled by the fallback alone
C28_ValidUrlsInFallback ==
    (ReturnedList /\ ~batch.use_arun_many
        /\ \A i \in 1..Len(batch.urls) : batch.urls[i]) =>
        Aligned(batch.urls, Val(batch.returned))

=============================================================================
